---- MODULE Spec2Model ----
(***************************************************************************)
(* AugMe video augmentation: the orchestration of the functional API       *)
(* (src/augme/video/functional.py), the shared add_augmenter of            *)
(* BaseFFMPEGAugmenter, the subprocess helpers and the command builders of *)
(* the multi-input augmenters.                                             *)
(*                                                                         *)
(* One functional-API call is modelled as a stack of frames, one per       *)
(* Python function that is active; every action is one statement (or one   *)
(* straight-line group of statements) of that function.  The file system   *)
(* is a map from path names to contents, the external tools are black      *)
(* boxes whose runs are recorded in `log`.                                 *)
(***************************************************************************)
EXTENDS Integers, Sequences, FiniteSets, TLC

VARIABLES
    call,       \* the arguments of the top-level functional-API call
    stack,      \* active Python frames, the last one is running
    fs,         \* file system: path -> content
    log,        \* subprocesses spawned so far, in order
    metadata,   \* the caller's metadata list (records appended so far)
    result,     \* "running" | "returned" | "raised"
    ret,        \* the path returned by the top-level call ("" before)
    exc,        \* the exception that left the top-level call ("" if none)
    cmd         \* command construction: the augmenter, the probed inputs, the command

vars == <<call, stack, fs, log, metadata, result, ret, exc, cmd>>

(***************************************************************************)
(* Paths.  "None" stands for Python's None given as output_path.           *)
(***************************************************************************)
None == "None"

InputPaths == {"video", "second", "third", "fourth"}

\* tempfile.TemporaryDirectory members, by the local variable that names them
TmpDirPaths == {"temp_path", "overlay_loop_path", "overlay_resize_path",
                "emoji_output_path", "before_path", "insert_path", "after_path",
                "silent_1", "silent_2", "silent_3"}

\* the CustomNamedTemporaryFile of add_augmenter
TmpFilePath == "tmpfile"

TempPaths == TmpDirPaths \cup {TmpFilePath}

Paths == InputPaths \cup {"out"} \cup TempPaths

(***************************************************************************)
(* File contents.  st: "absent" | "media" | "partial" | "empty";           *)
(* by: what wrote the file ("input" for the caller's files, otherwise the  *)
(* augmenter whose ffmpeg run produced it); audio: has an audio stream;    *)
(* odd: width or height is odd.                                            *)
(***************************************************************************)
Absent == [st |-> "absent", by |-> "", audio |-> FALSE, odd |-> FALSE]

Media(by, audio, odd) == [st |-> "media", by |-> by, audio |-> audio, odd |-> odd]

Partial(by) == [st |-> "partial", by |-> by, audio |-> FALSE, odd |-> FALSE]

EmptyFile == [st |-> "empty", by |-> "open", audio |-> FALSE, odd |-> FALSE]

\* Path(file_path).is_file()
is_file(f, p) == p \in Paths /\ f[p].st # "absent"

\* get_video_info: the first video stream, None when ffprobe finds no stream
get_video_info(f, p) == p \in Paths /\ f[p].st = "media"

\* get_audio_info: the first audio stream, None when there is none
get_audio_info(f, p) == p \in Paths /\ f[p].st = "media" /\ f[p].audio


(***************************************************************************)
(* The top-level call.  op: the functional-API function; output_path:      *)
(* "out" or None; meta: a metadata list is supplied; bad: the one argument *)
(* that is invalid ("none" when all are valid, "video_path" when the input *)
(* file does not exist); overlay_size: overlay_size is given; offset:      *)
(* where background_offset lies in the background.                         *)
(***************************************************************************)
SingleOps == {"blur", "add_silent_audio", "resize", "loop", "trim", "pad"}

StackOps == {"hstack", "vstack", "fstack"}

CompositeOps == {"pixelization", "overlay", "overlay_emoji", "concat",
                 "insert_in_background"} \cup StackOps

TopOps == {"blur", "add_silent_audio"} \cup CompositeOps

\* the arguments each function validates somewhere
BadOf(op) ==
    CASE op = "blur"                 -> {"sigma"}
      [] op = "pixelization"         -> {"ratio"}
      [] op = "overlay"              -> {"overlay_size", "x_factor"}
      [] op = "overlay_emoji"        -> {"opacity", "x_factor"}
      [] op = "concat"               -> {"pad_color"}
      [] op = "insert_in_background" -> {"background_offset", "pad_color", "start"}
      [] op \in StackOps             -> {"target_grid", "pad_color"}
      [] OTHER                       -> {}

Calls ==
    { c \in [op : TopOps, output_path : {"out", None}, meta : BOOLEAN,
             bad : {"none", "video_path", "sigma", "ratio", "overlay_size", "x_factor",
                    "opacity", "pad_color", "background_offset", "start", "target_grid"},
             video_audio : BOOLEAN, second_audio : BOOLEAN, video_odd : BOOLEAN,
             overlay_size : BOOLEAN, offset : {"start", "middle", "end"}] :
        /\ c.bad \in {"none", "video_path"} \cup BadOf(c.op)
        /\ (c.bad = "overlay_size" => c.overlay_size)
        /\ (c.op \notin {"concat", "insert_in_background"} =>
                c.video_audio /\ c.second_audio)
        /\ (c.op \notin StackOps => ~c.video_odd)
        /\ (c.op # "overlay" => ~c.overlay_size)
        /\ (c.op # "insert_in_background" => c.offset = "middle") }

\* the files the caller has before the call
InitFs(c) ==
    [p \in Paths |->
        CASE p = "video"  -> IF c.bad = "video_path" THEN Absent
                             ELSE Media("input", c.video_audio, c.video_odd)
          [] p = "second" -> Media("input", c.second_audio, FALSE)
          [] p \in {"third", "fourth"} -> Media("input", TRUE, FALSE)
          [] OTHER -> Absent]

(***************************************************************************)
(* Frames.  fn: the Python function; pc: the statement it is at;           *)
(* video_path, output_path, metadata (meta) and the invalid argument       *)
(* passed on (bad): its parameters; info: src_video_info is not None;      *)
(* paths: the other input paths; acc: a local list under construction;     *)
(* aug: the augmenter object of add_augmenter; opt: which optional         *)
(* arguments are given.                                                    *)
(***************************************************************************)
Frame(fn, pc, vp, out, meta, bad) ==
    [fn |-> fn, pc |-> pc, video_path |-> vp, output_path |-> out, meta |-> meta,
     bad |-> bad, info |-> FALSE, paths |-> <<>>, acc |-> <<>>, aug |-> "", opt |-> ""]

Top == stack[Len(stack)]

SetTop(f) == [stack EXCEPT ![Len(stack)] = f]

Push(f, g) == Append(SetTop(f), g)

Pop == SubSeq(stack, 1, Len(stack) - 1)

At(fns, pc) == result = "running" /\ stack # <<>> /\ Top.fn \in fns /\ Top.pc = pc

ProbeEntry(by, p) == [k |-> "ffprobe", by |-> by, path |-> p, rc |-> "ok"]

ToolEntry(by, p, rc) == [k |-> "ffmpeg", by |-> by, path |-> p, rc |-> rc]

(***************************************************************************)
(* Scoped cleanup.  A frame inside its `with` block owns the temporary     *)
(* files of that block; leaving the block, normally or by an exception,    *)
(* removes them.                                                           *)
(***************************************************************************)
WithPcs(fn) ==
    CASE fn = "add_augmenter"        -> {"command", "exit"}
      [] fn = "overlay"              -> {"with", "resize", "aug", "exit_with"}
      [] fn = "overlay_emoji"        -> {"with", "exit_with"}
      [] fn = "concat"               -> {"with", "aug", "exit_with"}
      [] fn = "insert_in_background" -> {"with", "insert", "after", "concat", "exit_with"}
      [] fn \in StackOps             -> {"with", "aug", "exit_with"}
      [] OTHER                       -> {}

WithPaths(fn) ==
    CASE fn = "add_augmenter"        -> {TmpFilePath}
      [] fn = "overlay"              -> {"overlay_loop_path", "overlay_resize_path"}
      [] fn = "overlay_emoji"        -> {"emoji_output_path"}
      [] fn = "concat"               -> {"silent_1", "silent_2", "silent_3"}
      [] fn = "insert_in_background" -> {"before_path", "insert_path", "after_path"}
      [] fn \in StackOps             -> {"temp_path"}
      [] OTHER                       -> {}

\* an __exit__ that closes but does not remove (delete=False)
Cleanup_NoRemove(f, fn) == f

\* CustomNamedTemporaryFile.__exit__ / TemporaryDirectory.__exit__
Cleanup(f, fn) == [p \in Paths |-> IF p \in WithPaths(fn) THEN Absent ELSE f[p]]

Owned(frame) == IF frame.pc \in WithPcs(frame.fn) THEN WithPaths(frame.fn) ELSE {}

\* an exception leaves every active frame; each `with` it passes cleans up
Unwind(f, stk) ==
    [p \in Paths |-> IF \E i \in DOMAIN stk : p \in Owned(stk[i]) THEN Absent ELSE f[p]]

Raise(kind, f2, log2) ==
    /\ stack' = <<>>
    /\ fs' = Unwind(f2, stack)
    /\ log' = log2
    /\ result' = "raised"
    /\ exc' = kind
    /\ UNCHANGED <<call, metadata, ret, cmd>>

Goto(stack2, f2, log2) ==
    /\ stack' = stack2
    /\ fs' = f2
    /\ log' = log2
    /\ UNCHANGED <<call, metadata, result, ret, exc, cmd>>

(***************************************************************************)
(* The external tool.  A run ends "ok", "error" (non-zero exit status) or  *)
(* "timeout" (killed); `wrote` tells whether it had opened (truncated) its *)
(* output file by then.  A run whose input is not a readable media file    *)
(* fails before it opens its output.                                       *)
(***************************************************************************)
ToolInputs(f) == {f.video_path} \cup {f.paths[i] : i \in DOMAIN f.paths}

Outcomes(f0, f) ==
    IF \A p \in ToolInputs(f) : get_video_info(f0, p)
    THEN {[rc |-> "ok", wrote |-> TRUE], [rc |-> "error", wrote |-> FALSE],
          [rc |-> "error", wrote |-> TRUE], [rc |-> "timeout", wrote |-> TRUE]}
    ELSE {[rc |-> "error", wrote |-> FALSE]}

\* what the run leaves at its output path
Written(f0, f, o) ==
    IF o.rc = "ok"
    THEN Media(f.aug,
               IF f.aug \in {"add_silent_audio", "concat"} THEN TRUE
               ELSE f0[f.video_path].audio,
               IF f.aug = "add_silent_audio" THEN f0[f.video_path].odd ELSE FALSE)
    ELSE IF o.wrote THEN Partial(f.aug) ELSE f0[f.output_path]

\* execute_ffmpeg_cmd: communicate() ignores the exit status, a timeout kills the
\* process and is swallowed; the function returns None in every case
execute_ffmpeg_cmd_raises(rc) == FALSE

(***************************************************************************)
(* get_command of the augmenters: the probes it spawns, and whether it     *)
(* subscripts a probe result that is None (TypeError).                     *)
(***************************************************************************)
get_command_probes(f) ==
    CASE f.aug \in {"resize", "trim", "pad"} -> <<ProbeEntry(f.aug, f.video_path)>>
      [] f.aug = "overlay" ->
            <<ProbeEntry(f.aug, f.video_path), ProbeEntry(f.aug, f.video_path),
              ProbeEntry(f.aug, f.paths[1])>>
      [] f.aug \in StackOps ->
            <<ProbeEntry(f.aug, f.video_path), ProbeEntry(f.aug, f.video_path)>>
            \o [i \in 1..Len(f.paths) |-> ProbeEntry(f.aug, f.paths[i])]
            \o [i \in 1..Len(f.paths) |-> ProbeEntry(f.aug, f.paths[i])]
      [] OTHER -> <<>>

get_command_raises(f0, f) ==
    CASE f.aug = "resize" -> f.opt # "both" /\ ~get_video_info(f0, f.video_path)
      [] f.aug = "trim" -> f.opt = "end_none" /\ ~get_video_info(f0, f.video_path)
      [] f.aug \in {"pad", "overlay"} -> ~get_video_info(f0, f.video_path)
      [] f.aug \in StackOps ->
            \/ ~get_video_info(f0, f.video_path)
            \/ \E i \in DOMAIN f.paths : ~get_video_info(f0, f.paths[i])
      [] f.aug = "concat" -> \E i \in DOMAIN f.paths : ~get_video_info(f0, f.paths[i])
      [] OTHER -> FALSE

(***************************************************************************)
(* BaseFFMPEGAugmenter.add_augmenter                                       *)
(***************************************************************************)
AugFrame(aug, vp, out, paths, opt) ==
    [Frame("add_augmenter", "validate", vp, out, FALSE, "none")
        EXCEPT !.aug = aug, !.paths = paths, !.opt = opt]

\* validate_input_and_output_paths
add_augmenter_validate ==
    /\ At({"add_augmenter"}, "validate")
    /\ IF ~is_file(fs, Top.video_path)
       THEN Raise("AssertionError", fs, log)
       ELSE Goto(SetTop([Top EXCEPT !.pc = "enter",
                                   !.output_path = IF @ = None THEN Top.video_path ELSE @]),
                 fs, log)

\* CustomNamedTemporaryFile.__enter__, and the copy when the source is overwritten
add_augmenter_enter ==
    /\ At({"add_augmenter"}, "enter")
    /\ LET same == Top.video_path = Top.output_path
       IN Goto(SetTop([Top EXCEPT !.pc = "command",
                                  !.video_path = IF same THEN TmpFilePath ELSE @]),
               [fs EXCEPT ![TmpFilePath] = IF same THEN fs[Top.video_path] ELSE EmptyFile],
               log)

\* execute_ffmpeg_cmd(self.get_command(video_path, output_path))
add_augmenter_execute ==
    /\ At({"add_augmenter"}, "command")
    /\ LET f == Top
           log1 == log \o get_command_probes(f)
       IN IF get_command_raises(fs, f)
          THEN Raise("TypeError", fs, log1)
          ELSE \E o \in Outcomes(fs, f) :
                 LET log2 == Append(log1, ToolEntry(f.aug, f.output_path, o.rc))
                     fs2 == [fs EXCEPT ![f.output_path] = Written(fs, f, o)]
                 IN IF execute_ffmpeg_cmd_raises(o.rc)
                    THEN Raise("CalledProcessError", fs2, log2)
                    ELSE Goto(SetTop([f EXCEPT !.pc = "exit"]), fs2, log2)

\* CustomNamedTemporaryFile.__exit__, return to the caller
add_augmenter_exit ==
    /\ At({"add_augmenter"}, "exit")
    /\ Goto(Pop, Cleanup(fs, "add_augmenter"), log)

(***************************************************************************)
(* Steps every functional-API function shares.                             *)
(***************************************************************************)
AfterKwargs(fn) ==
    CASE fn \in SingleOps -> "construct"
      [] fn = "pixelization" -> "assert"
      [] fn = "overlay_emoji" -> "validate"
      [] fn = "insert_in_background" -> "probe"
      [] OTHER -> "with"

\* a get_func_kwargs that leaves the source unprobed
src_video_info_unprobed(meta, video_path) == <<>>

\* get_func_kwargs: `if metadata is None: return {}`, else the probe of the source
src_video_info_probe(meta, video_path) ==
    IF meta THEN <<ProbeEntry("get_func_kwargs", video_path)>> ELSE <<>>

\* helpers.get_func_kwargs: with a metadata list, probes the source first
get_func_kwargs ==
    /\ At(SingleOps \cup CompositeOps, "kwargs")
    /\ Goto(SetTop([Top EXCEPT !.pc = AfterKwargs(Top.fn),
                               !.info = Top.meta /\ get_video_info(fs, Top.video_path)]),
            fs,
            log \o src_video_info_probe(Top.meta, Top.video_path))

\* leaving the `with tempfile.TemporaryDirectory()` block normally
exit_with ==
    /\ At(CompositeOps, "exit_with")
    /\ Goto(SetTop([Top EXCEPT !.pc = "finish"]), Cleanup(fs, Top.fn), log)

\* the name a function records in the metadata
function_name(fn) == IF fn = "add_silent_audio" THEN "add_noise" ELSE fn

\* helpers.get_metadata (when a list is supplied), then `return output_path or video_path`
finish ==
    /\ At(SingleOps \cup CompositeOps, "finish")
    /\ LET f == Top
           final == IF f.output_path = None THEN f.video_path ELSE f.output_path
           log1 == IF f.meta THEN Append(log, ProbeEntry("get_metadata", final)) ELSE log
       IN IF f.meta /\ ~(f.info /\ get_video_info(fs, final))
          THEN Raise("TypeError", fs, log1)
          ELSE /\ stack' = Pop
               /\ log' = log1
               /\ metadata' = IF f.meta
                              THEN Append(metadata, [name |-> function_name(f.fn)])
                              ELSE metadata
               /\ result' = IF Len(stack) = 1 THEN "returned" ELSE result
               /\ ret' = IF Len(stack) = 1 THEN final ELSE ret
               /\ UNCHANGED <<call, fs, exc, cmd>>

(***************************************************************************)
(* Functions made of one augmenter: blur, add_silent_audio, resize, loop,  *)
(* trim, pad.                                                              *)
(***************************************************************************)
\* the arguments the augmenter's constructor asserts
CtorChecks(fn) ==
    CASE fn = "blur"   -> {"sigma"}
      [] fn = "resize" -> {"width", "height"}
      [] fn = "loop"   -> {"num_loops"}
      [] fn = "trim"   -> {"start", "end"}
      [] fn = "pad"    -> {"w_factor", "h_factor", "color"}
      [] OTHER         -> {}

single_construct ==
    /\ At(SingleOps, "construct")
    /\ IF Top.bad \in CtorChecks(Top.fn)
       THEN Raise("AssertionError", fs, log)
       ELSE Goto(Push([Top EXCEPT !.pc = "finish"],
                      AugFrame(Top.fn, Top.video_path, Top.output_path, <<>>, Top.opt)),
                 fs, log)

(***************************************************************************)
(* Calls of one functional-API function by another (metadata is None in    *)
(* every such call).                                                       *)
(***************************************************************************)
CallFrame(fn, pc, vp, out, bad, paths, opt) ==
    [Frame(fn, pc, vp, out, FALSE, bad) EXCEPT !.paths = paths, !.opt = opt]

OrVideo(f) == IF f.output_path = None THEN f.video_path ELSE f.output_path

(***************************************************************************)
(* pixelization                                                            *)
(***************************************************************************)
\* assert ratio > 0; probe; resize(video_path, output_path, width*ratio, height*ratio)
pixelization_first ==
    /\ At({"pixelization"}, "assert")
    /\ LET f == Top
           log1 == Append(log, ProbeEntry("pixelization", f.video_path))
       IN IF f.bad = "ratio" THEN Raise("AssertionError", fs, log)
          ELSE IF ~get_video_info(fs, f.video_path) THEN Raise("TypeError", fs, log1)
          ELSE Goto(Push([f EXCEPT !.pc = "second", !.output_path = OrVideo(f)],
                         CallFrame("resize", "kwargs", f.video_path, OrVideo(f),
                                   "none", <<>>, "both")),
                    fs, log1)

\* resize(output_path, output_path, width, height)
pixelization_second ==
    /\ At({"pixelization"}, "second")
    /\ Goto(Push([Top EXCEPT !.pc = "finish"],
                 CallFrame("resize", "kwargs", Top.output_path, Top.output_path,
                           "none", <<>>, "both")),
            fs, log)

(***************************************************************************)
(* overlay                                                                 *)
(***************************************************************************)
\* validate_path(video_path); validate_path(overlay_path)
overlay_validate ==
    /\ At({"overlay"}, "validate")
    /\ IF ~is_file(fs, Top.video_path) \/ ~is_file(fs, Top.paths[1])
       THEN Raise("AssertionError", fs, log)
       ELSE Goto(SetTop([Top EXCEPT !.pc = "kwargs"]), fs, log)

\* with tmpdir: the two probes; with overlay_size: its assert, num_loops, loop(...)
overlay_with ==
    /\ At({"overlay"}, "with")
    /\ LET f == Top
           log1 == log \o <<ProbeEntry("overlay", f.video_path),
                            ProbeEntry("overlay", f.paths[1])>>
       IN IF f.opt # "size" THEN Goto(SetTop([f EXCEPT !.pc = "aug"]), fs, log1)
          ELSE IF f.bad = "overlay_size" THEN Raise("AssertionError", fs, log1)
          ELSE IF ~get_video_info(fs, f.video_path) \/ ~get_video_info(fs, f.paths[1])
               THEN Raise("TypeError", fs, log1)
          ELSE Goto(Push([f EXCEPT !.pc = "resize"],
                         CallFrame("loop", "kwargs", f.paths[1], "overlay_loop_path",
                                   "none", <<>>, "")),
                    fs, log1)

\* resize(overlay_loop_path, overlay_resize_path, overlay_w, overlay_h)
overlay_resize ==
    /\ At({"overlay"}, "resize")
    /\ Goto(Push([Top EXCEPT !.pc = "aug", !.paths = <<"overlay_resize_path">>],
                 CallFrame("resize", "kwargs", "overlay_loop_path", "overlay_resize_path",
                           "none", <<>>, "one")),
            fs, log)

\* VideoAugmenterByOverlay(overlay_resize_path or overlay_path, ...).add_augmenter(...)
overlay_aug ==
    /\ At({"overlay"}, "aug")
    /\ IF ~is_file(fs, Top.paths[1]) \/ Top.bad = "x_factor"
       THEN Raise("AssertionError", fs, log)
       ELSE Goto(Push([Top EXCEPT !.pc = "exit_with"],
                      AugFrame("overlay", Top.video_path, Top.output_path, Top.paths, "")),
                 fs, log)

(***************************************************************************)
(* overlay_emoji                                                           *)
(***************************************************************************)
\* validate_path(video_path); validate_path(emoji_path); get_video_info(video_path)
overlay_emoji_validate ==
    /\ At({"overlay_emoji"}, "validate")
    /\ IF ~is_file(fs, Top.video_path) \/ ~is_file(fs, Top.paths[1])
       THEN Raise("AssertionError", fs, log)
       ELSE Goto(SetTop([Top EXCEPT !.pc = "with"]), fs,
                 Append(log, ProbeEntry("overlay_emoji", Top.video_path)))

\* with tmpdir: resize_image, opacity_image (both in-process), overlay(...)
overlay_emoji_with ==
    /\ At({"overlay_emoji"}, "with")
    /\ LET f == Top
           fs1 == [fs EXCEPT !["emoji_output_path"] = Media("resize_image", FALSE, FALSE)]
       IN IF ~get_video_info(fs, f.video_path) THEN Raise("TypeError", fs, log)
          ELSE IF f.bad = "opacity" THEN Raise("AssertionError", fs1, log)
          ELSE Goto(Push([f EXCEPT !.pc = "exit_with"],
                         CallFrame("overlay", "validate", f.video_path, f.output_path,
                                   f.bad, <<"emoji_output_path">>, "")),
                    fs1, log)

(***************************************************************************)
(* concat.  paths: video_paths; acc: video_paths_with_audio; video_path:   *)
(* video_paths[src_video_path_index], the first one in this model.         *)
(***************************************************************************)
SilentPath(i) == CASE i = 1 -> "silent_1" [] i = 2 -> "silent_2" [] OTHER -> "silent_3"

\* one turn of `for path in video_paths`
concat_loop ==
    /\ At({"concat"}, "with")
    /\ LET f == Top
           i == Len(f.acc) + 1
       IN IF i > Len(f.paths) THEN Goto(SetTop([f EXCEPT !.pc = "aug"]), fs, log)
          ELSE LET log1 == Append(log, ProbeEntry("concat", f.paths[i]))
               IN IF get_audio_info(fs, f.paths[i])
                  THEN Goto(SetTop([f EXCEPT !.acc = Append(@, f.paths[i])]), fs, log1)
                  ELSE Goto(Push([f EXCEPT !.acc = Append(@, SilentPath(i))],
                                 CallFrame("add_silent_audio", "kwargs", f.paths[i],
                                           SilentPath(i), "none", <<>>, "")),
                            fs, log1)

\* VideoAugmenterByConcat(video_paths_with_audio, index, pad_color).add_augmenter(...)
concat_aug ==
    /\ At({"concat"}, "aug")
    /\ LET f == Top
       IN IF f.bad = "pad_color" \/ \E i \in DOMAIN f.acc : ~is_file(fs, f.acc[i])
          THEN Raise("AssertionError", fs, log)
          ELSE Goto(Push([f EXCEPT !.pc = "exit_with"],
                         AugFrame("concat", f.acc[1], f.output_path, f.acc, "")),
                    fs, log \o [i \in 1..Len(f.acc) |-> ProbeEntry("concat", f.acc[i])])

(***************************************************************************)
(* insert_in_background.  paths: <<background_path>>; acc: video_paths;    *)
(* opt: where background_offset lies ("start": 0, "middle", "end": at or   *)
(* beyond the duration of the background).                                 *)
(***************************************************************************)
\* validate_path(background_path); assert background_offset >= 0; validate_rgb_color
insert_in_background_validate ==
    /\ At({"insert_in_background"}, "validate")
    /\ IF ~is_file(fs, Top.paths[1]) \/ Top.bad \in {"background_offset", "pad_color"}
       THEN Raise("AssertionError", fs, log)
       ELSE Goto(SetTop([Top EXCEPT !.pc = "kwargs"]), fs, log)

\* the two probes, background_info["duration"]
insert_in_background_probe ==
    /\ At({"insert_in_background"}, "probe")
    /\ LET log1 == log \o <<ProbeEntry("insert_in_background", Top.video_path),
                            ProbeEntry("insert_in_background", Top.paths[1])>>
       IN IF ~get_video_info(fs, Top.paths[1]) THEN Raise("TypeError", fs, log1)
          ELSE Goto(SetTop([Top EXCEPT !.pc = "with"]), fs, log1)

\* if background_offset > 0: trim(background_path, before_path, end=background_offset)
insert_in_background_before ==
    /\ At({"insert_in_background"}, "with")
    /\ IF Top.opt = "start" THEN Goto(SetTop([Top EXCEPT !.pc = "insert"]), fs, log)
       ELSE Goto(Push([Top EXCEPT !.pc = "insert", !.acc = Append(@, "before_path")],
                      CallFrame("trim", "kwargs", Top.paths[1], "before_path",
                                "none", <<>>, "end_given")),
                 fs, log)

\* trim(video_path, insert_path, start=start, end=end)
insert_in_background_insert ==
    /\ At({"insert_in_background"}, "insert")
    /\ Goto(Push([Top EXCEPT !.pc = "after", !.acc = Append(@, "insert_path")],
                 CallFrame("trim", "kwargs", Top.video_path, "insert_path",
                           Top.bad, <<>>, "end_none")),
            fs, log)

\* if background_offset < duration: trim(background_path, after_path, start=offset)
insert_in_background_after ==
    /\ At({"insert_in_background"}, "after")
    /\ IF Top.opt = "end" THEN Goto(SetTop([Top EXCEPT !.pc = "concat"]), fs, log)
       ELSE Goto(Push([Top EXCEPT !.pc = "concat", !.acc = Append(@, "after_path")],
                      CallFrame("trim", "kwargs", Top.paths[1], "after_path",
                                "none", <<>>, "end_none")),
                 fs, log)

\* concat(video_paths, output_path or video_path, 0, pad_color)
insert_in_background_concat ==
    /\ At({"insert_in_background"}, "concat")
    /\ Goto(Push([Top EXCEPT !.pc = "exit_with"],
                 CallFrame("concat", "kwargs", Top.acc[1], OrVideo(Top),
                           "none", Top.acc, "")),
            fs, log)

(***************************************************************************)
(* hstack, vstack, fstack.  paths: the other videos; opt: "temp" when the  *)
(* primary was padded into temp_path.                                      *)
(***************************************************************************)
\* with tmpdir: probe; an odd primary is padded first: pad(video_path, temp_path, 0, 0)
stack_with ==
    /\ At(StackOps, "with")
    /\ LET f == Top
           log1 == Append(log, ProbeEntry(f.fn, f.video_path))
       IN IF ~get_video_info(fs, f.video_path) THEN Raise("TypeError", fs, log1)
          ELSE IF fs[f.video_path].odd
          THEN Goto(Push([f EXCEPT !.pc = "aug", !.opt = "temp"],
                         CallFrame("pad", "kwargs", f.video_path, "temp_path",
                                   "none", <<>>, "")),
                    fs, log1)
          ELSE Goto(SetTop([f EXCEPT !.pc = "aug"]), fs, log1)

\* VideoAugmenterBy{H,V,F}Stack(...).add_augmenter(temp_path or video_path, output_path)
stack_aug ==
    /\ At(StackOps, "aug")
    /\ LET f == Top
       IN IF f.bad \in {"target_grid", "pad_color"}
             \/ \E i \in DOMAIN f.paths : ~is_file(fs, f.paths[i])
          THEN Raise("AssertionError", fs, log)
          ELSE Goto(Push([f EXCEPT !.pc = "exit_with"],
                         AugFrame(f.fn, IF f.opt = "temp" THEN "temp_path" ELSE f.video_path,
                                  f.output_path, f.paths, "")),
                    fs, log)

(***************************************************************************)
(* The functional API: one call, from its first statement to its return    *)
(* or its exception.                                                       *)
(***************************************************************************)
InitFrame(c) ==
    LET pc0 == IF c.op \in {"overlay", "insert_in_background"} THEN "validate" ELSE "kwargs"
        paths == CASE c.op = "concat" -> <<"video", "second">>
                   [] c.op = "fstack" -> <<"second", "third", "fourth">>
                   [] c.op \in SingleOps \cup {"pixelization"} -> <<>>
                   [] OTHER -> <<"second">>
        opt == CASE c.op = "overlay" -> IF c.overlay_size THEN "size" ELSE ""
                 [] c.op = "insert_in_background" -> c.offset
                 [] OTHER -> ""
    IN [Frame(c.op, pc0, "video", c.output_path, c.meta, c.bad)
            EXCEPT !.paths = paths, !.opt = opt]

NoCmd == [aug |-> "", built |-> FALSE]

Init ==
    /\ call \in Calls
    /\ stack = <<InitFrame(call)>>
    /\ fs = InitFs(call)
    /\ log = <<>>
    /\ metadata = <<>>
    /\ result = "running"
    /\ ret = ""
    /\ exc = ""
    /\ cmd = NoCmd

Next ==
    \/ get_func_kwargs
    \/ single_construct
    \/ add_augmenter_validate
    \/ add_augmenter_enter
    \/ add_augmenter_execute
    \/ add_augmenter_exit
    \/ exit_with
    \/ finish
    \/ pixelization_first
    \/ pixelization_second
    \/ overlay_validate
    \/ overlay_with
    \/ overlay_resize
    \/ overlay_aug
    \/ overlay_emoji_validate
    \/ overlay_emoji_with
    \/ concat_loop
    \/ concat_aug
    \/ insert_in_background_validate
    \/ insert_in_background_probe
    \/ insert_in_background_before
    \/ insert_in_background_insert
    \/ insert_in_background_after
    \/ insert_in_background_concat
    \/ stack_with
    \/ stack_aug

Spec == Init /\ [][Next]_vars

(***************************************************************************)
(* Properties of the functional API.                                       *)
(***************************************************************************)
ToolRun(i) == i \in DOMAIN log /\ log[i].k = "ffmpeg"

ToolFailed == \E i \in DOMAIN log : ToolRun(i) /\ log[i].rc # "ok"

SourceOverwritten == call.output_path = None

\* the path the call is to store its result at, and to return
FinalPath == IF call.output_path = None THEN "video" ELSE "out"

\* the augmenter whose run produces the result of the call
FinalAug(op) ==
    CASE op = "pixelization"         -> "resize"
      [] op = "overlay_emoji"        -> "overlay"
      [] op = "insert_in_background" -> "concat"
      [] OTHER                       -> op

\* C1: when the result is to overwrite the source, no tool run writes to the
\* source path itself (the tool writes to a private temporary path), and after a
\* failed or timed-out run the source file still has the content it had before
\* the call.
C1_SourceIntactOnFailure ==
    SourceOverwritten =>
        /\ \A i \in DOMAIN log : ToolRun(i) => log[i].path # "video"
        /\ (ToolFailed => fs["video"] = InitFs(call)["video"])

\* C2: a call whose transformation subprocess exited non-zero or was killed on
\* timeout does not return normally.
C2_FailureIsSignalled == result = "returned" => ~ToolFailed

\* C3: in a composite operation no transformation subprocess is started after the
\* transformation subprocess of an earlier step has failed.
C3_NoStepAfterFailedStep ==
    call.op \in CompositeOps =>
        \A i, j \in DOMAIN log :
            (i < j /\ ToolRun(i) /\ log[i].rc # "ok") => ~ToolRun(j)

\* C4: a call with an invalid argument (out-of-range parameter, malformed colour,
\* invalid selector, missing input file) spawns no subprocess at all: the
\* validation error is raised before any probe or transformation.
C4_ValidationBeforeAnySubprocess == call.bad # "none" => log = <<>>

\* C5: once the call has returned or raised, no temporary file it created exists:
\* neither the private temporary file of add_augmenter nor any member of a
\* temporary directory.
C5_TemporariesRemoved ==
    result # "running" => \A p \in TempPaths : fs[p] = Absent

\* C5 witness: the call ended by an exception in a later step, after one step had
\* written an intermediate file into a temporary directory and another had failed.
C5_Witness ==
    /\ result = "raised"
    /\ ToolFailed
    /\ \E i \in DOMAIN log : ToolRun(i) /\ log[i].rc = "ok" /\ log[i].path \in TmpDirPaths

\* C6: a call all of whose tool runs succeeded returns the given output path (the
\* input path when none is given), that path holds the result of the operation,
\* and no other file of the caller has changed.
C6_ResultAtReturnedPath ==
    (result = "returned" /\ ~ToolFailed) =>
        /\ ret = FinalPath
        /\ fs[ret].st = "media"
        /\ fs[ret].by = FinalAug(call.op)
        /\ \A p \in (InputPaths \cup {"out"}) \ {ret} : fs[p] = InitFs(call)[p]

(***************************************************************************)
(* Command construction of the multi-input augmenters                      *)
(* (blend.py, overlay.py, hstack.py, vstack.py, fstack.py).                *)
(*                                                                         *)
(* Durations are whole seconds, held as floats by get_media_info, frame    *)
(* sizes are pixels.  cmd holds the augmenter object (its constructor      *)
(* arguments), what the probes of get_command return and, once built, the  *)
(* argument list.  Every probed file has a positive duration: with a       *)
(* duration of 0 the division of n_loops raises before a command exists.   *)
(***************************************************************************)
MaxDuration == 3

\* str() of a float that holds a whole number
str_float(n) == ToString(n) \o ".0"

MultiInputAugs == {"blend", "overlay", "hstack", "vstack", "fstack"}

\* the quotient rounded down instead of up
floor_div(a, b) == a \div b

\* math.ceil(a / b) for positive a, b
ceil_div(a, b) == (a + b - 1) \div b

\* BaseFFMPEGAugmenter.input_fmt
input_fmt(video_path) == <<"-y", "-i", video_path>>

\* BaseFFMPEGAugmenter.output_fmt
output_fmt(output_path) ==
    <<"-c:v", "libx264", "-preset", "slow", "-crf", "23", "-pix_fmt", "yuv420p",
      output_path>>

\* the filters declared ahead of the input
filters_before_input(video_path, filters, output_path) ==
    <<"-y">> \o filters \o <<"-i", video_path>> \o output_fmt(output_path)

\* BaseFFMPEGAugmenter.standard_filter_fmt
standard_filter_fmt(video_path, filters, output_path) ==
    input_fmt(video_path) \o filters \o output_fmt(output_path)

AmergeCodec == <<"-c:a", "aac", "-r:a", "44100", "-b:a", "128k", "-ac", "2">>

CopyCodec == <<"-c:a", "copy">>

\* the merge branch taken whenever the secondary has audio
audio_select_merge_without_primary(merge_audio, audio_info, second_audio_info) ==
    IF merge_audio /\ second_audio_info
    THEN [filter |-> ";[0:a:0][1:a:0]amerge=inputs=2,pan=stereo|c0<c0+c2|c1<c1+c3[a]",
          map |-> <<"-map", "[a]">>, codec |-> AmergeCodec]
    ELSE [filter |-> "", map |-> <<"-map", "0:a?">>, codec |-> CopyCodec]

\* the secondary's audio mapped without looking at merge_audio
audio_select_other_unasked(merge_audio, audio_info, second_audio_info) ==
    IF merge_audio /\ audio_info /\ second_audio_info
    THEN [filter |-> ";[0:a:0][1:a:0]amerge=inputs=2,pan=stereo|c0<c0+c2|c1<c1+c3[a]",
          map |-> <<"-map", "[a]">>, codec |-> AmergeCodec]
    ELSE IF second_audio_info
    THEN [filter |-> "", map |-> <<"-map", "1:a">>, codec |-> CopyCodec]
    ELSE [filter |-> "", map |-> <<"-map", "0:a?">>, codec |-> CopyCodec]

\* the audio branch of blend, overlay, hstack and vstack (the same statement in
\* the four files): audio_filter, audio_map and audio_codec
audio_select(merge_audio, audio_info, second_audio_info) ==
    IF merge_audio /\ audio_info /\ second_audio_info
    THEN [filter |-> ";[0:a:0][1:a:0]amerge=inputs=2,pan=stereo|c0<c0+c2|c1<c1+c3[a]",
          map |-> <<"-map", "[a]">>, codec |-> AmergeCodec]
    ELSE IF merge_audio /\ second_audio_info
    THEN [filter |-> "", map |-> <<"-map", "1:a">>, codec |-> CopyCodec]
    ELSE [filter |-> "", map |-> <<"-map", "0:a?">>, codec |-> CopyCodec]

\* the audio branch of fstack
fstack_audio_select(merge_audio, audio_info, audio_infos) ==
    IF merge_audio /\ audio_info /\ audio_infos[1] /\ audio_infos[2] /\ audio_infos[3]
    THEN [filter |-> ";[0:a:0][1:a:0][2:a:0][3:a:0]amerge=inputs=4,"
                     \o "pan=stereo|c0<c0+c2+c4+c6|c1<c1+c3+c5+c7[a]",
          map |-> <<"-map", "[a]">>, codec |-> AmergeCodec]
    ELSE [filter |-> "", map |-> <<"-map", "0:a?">>, codec |-> CopyCodec]

\* n_loops = ceil(duration / second_video_info['duration'])
n_loops(video_info, second_video_info) ==
    ceil_div(video_info.duration, second_video_info.duration)

\* "-stream_loop", n, "-i", path, "-t", duration: one looped input
looped_input(n, path, video_info) ==
    <<"-stream_loop", ToString(n), "-i", path, "-t", str_float(video_info.duration)>>

RateArgs(video_info) == <<"-fps_mode", "cfr", "-r", str_float(video_info.r_frame_rate)>>

EvenPad == "pad=width=ceil(iw/2)*2:height=ceil(ih/2)*2[v]"

\* VideoAugmenterByBlending.get_command; self.opacity is held as its str()
blend_get_command(self, video_path, output_path, vi, ai, others) ==
    LET a == audio_select(self.merge_audio, ai, others[1].audio)
        filters ==
            looped_input(n_loops(vi, others[1]), self.paths[1], vi)
            \o <<"-filter_complex",
                 "[1:v:0]scale=w=" \o ToString(vi.width) \o ":h=" \o ToString(vi.height)
                 \o "[1v];"
                 \o "[0:v:0][1v]blend=all_mode=overlay:all_opacity=" \o self.opacity
                 \o "[bv];"
                 \o "[bv]" \o EvenPad
                 \o a.filter,
                 "-map", "[v]">>
            \o a.map \o RateArgs(vi) \o a.codec
    IN standard_filter_fmt(video_path, filters, output_path)

\* VideoAugmenterByOverlay.get_command; x_factor and y_factor are held in
\* percent, int() truncates
overlay_get_command(self, video_path, output_path, vi, ai, others) ==
    LET a == audio_select(self.merge_audio, ai, others[1].audio)
        x == (vi.width * self.x_factor) \div 100
        y == (vi.height * self.y_factor) \div 100
        filters ==
            <<"-i", self.paths[1], "-t", str_float(vi.duration),
              "-filter_complex",
              "[0:v][1:v]overlay=x=" \o ToString(x) \o ":y=" \o ToString(y) \o "[ov];"
              \o "[ov]" \o EvenPad
              \o a.filter,
              "-map", "[v]">>
            \o a.map \o a.codec \o RateArgs(vi)
    IN standard_filter_fmt(video_path, filters, output_path)

HexDigits == <<"0", "1", "2", "3", "4", "5", "6", "7", "8", "9",
               "a", "b", "c", "d", "e", "f">>

\* "%02x" % n for n in 0..255
hex2(n) == HexDigits[(n \div 16) + 1] \o HexDigits[(n % 16) + 1]

\* self.hex_color = "%02x%02x%02x" % pad_color
hex_color(pad_color) == hex2(pad_color[1]) \o hex2(pad_color[2]) \o hex2(pad_color[3])

\* the pad=...:color=... filter text shared by the stack augmenters
PadBox(vi, hex) ==
    "pad=w=" \o ToString(vi.width) \o ":h=" \o ToString(vi.height)
    \o ":x=(ow-iw)/2:y=(oh-ih)/2:color=" \o hex

\* video_info['width'] < video_info['height'] / second['height'] * second['width'],
\* compared exactly
wider_than_primary(vi, s) == vi.width * s.height < vi.height * s.width

\* video_info['height'] < video_info['width'] / second['width'] * second['height']
taller_than_primary(vi, s) == vi.height * s.width < vi.width * s.height

\* VideoAugmenterByHStack.get_command
hstack_get_command(self, video_path, output_path, vi, ai, others) ==
    LET a == audio_select(self.merge_audio, ai, others[1].audio)
        stack_order == IF self.target_grid # 0 THEN "[vpad][0:v:0]" ELSE "[0:v:0][vpad]"
        scale_width == IF self.preserve_aspect_ratio THEN "-1" ELSE ToString(vi.width)
        pad_filter ==
            IF self.pad_second_video /\ wider_than_primary(vi, others[1])
            THEN "[1v]scale=w=" \o ToString(vi.width) \o ":h=-1[1scale];"
                 \o "[1scale]" \o PadBox(vi, self.hex_color) \o "[vpad];"
            ELSE IF self.pad_second_video
            THEN "[1v]" \o PadBox(vi, self.hex_color) \o "[vpad];"
            ELSE "[1v]null[vpad];"
        filters ==
            looped_input(n_loops(vi, others[1]), self.paths[1], vi)
            \o <<"-filter_complex",
                 "[1:v:0]scale=w=" \o scale_width \o ":h=" \o ToString(vi.height) \o "[1v];"
                 \o pad_filter
                 \o stack_order \o "hstack=inputs=2[hstack];"
                 \o "[hstack]scale=w='min(iw," \o ToString(self.max_width)
                 \o ")':h=-1,setsar=ratio=1:1[vscale];"
                 \o "[vscale]pad=w=ceil(iw/2)*2:h=ceil(ih/2)*2[v]"
                 \o a.filter,
                 "-map", "[v]">>
            \o a.map \o RateArgs(vi) \o a.codec
    IN standard_filter_fmt(video_path, filters, output_path)

\* VideoAugmenterByVStack.get_command
vstack_get_command(self, video_path, output_path, vi, ai, others) ==
    LET a == audio_select(self.merge_audio, ai, others[1].audio)
        stack_order == IF self.target_grid # 0 THEN "[vpad][0:v:0]" ELSE "[0:v:0][vpad]"
        scale_height == IF self.preserve_aspect_ratio THEN "-1" ELSE ToString(vi.height)
        pad_filter ==
            IF self.pad_second_video /\ taller_than_primary(vi, others[1])
            THEN "[1v]scale=w=-1:h=" \o ToString(vi.height) \o "[1scale];"
                 \o "[1scale]" \o PadBox(vi, self.hex_color) \o "[vpad];"
            ELSE IF self.pad_second_video
            THEN "[1v]" \o PadBox(vi, self.hex_color) \o "[vpad];"
            ELSE "[1v]null[vpad];"
        filters ==
            looped_input(n_loops(vi, others[1]), self.paths[1], vi)
            \o <<"-filter_complex",
                 "[1:v:0]scale=w=" \o ToString(vi.width) \o ":h=" \o scale_height \o "[1v];"
                 \o pad_filter
                 \o stack_order \o "vstack=inputs=2[vstack];"
                 \o "[vstack]scale=w=-1:h='min(ih," \o ToString(self.max_height)
                 \o ")',setsar=ratio=1:1[vscale];"
                 \o "[vscale]pad=w=ceil(iw/2)*2:h=ceil(ih/2)*2[v]"
                 \o a.filter,
                 "-map", "[v]">>
            \o a.map \o RateArgs(vi) \o a.codec
    IN standard_filter_fmt(video_path, filters, output_path)

\* the primary first in the top row, whatever target_grid is
fstack_order_primary_first(target_grid) == <<"[0:v:0][1pad]", "[2pad][3pad]">>

\* stack_order_h1, stack_order_h2 of fstack
fstack_order(target_grid) ==
    CASE target_grid = 0 -> <<"[0:v:0][1pad]", "[2pad][3pad]">>
      [] target_grid = 1 -> <<"[1pad][0:v:0]", "[2pad][3pad]">>
      [] target_grid = 2 -> <<"[1pad][2pad]", "[0:v:0][3pad]">>
      [] target_grid = 3 -> <<"[1pad][2pad]", "[3pad][0:v:0]">>

\* one element of video_filters, for the input with index i (1-based)
fstack_video_filter(self, vi, s, i) ==
    LET n == ToString(i)
        scale_width == IF self.preserve_aspect_ratio THEN "-1" ELSE ToString(vi.width)
    IN "[" \o n \o ":v:0]scale=w=" \o scale_width \o ":h=" \o ToString(vi.height)
       \o "[" \o n \o "v];"
       \o (IF self.pad_video /\ wider_than_primary(vi, s)
           THEN "[" \o n \o "v]scale=w=" \o ToString(vi.width) \o ":h=-1[" \o n \o "scale];"
                \o "[" \o n \o "scale]" \o PadBox(vi, self.hex_color) \o "[" \o n \o "pad];"
           ELSE IF self.pad_video
           THEN "[" \o n \o "v]" \o PadBox(vi, self.hex_color) \o "[" \o n \o "pad];"
           ELSE "[" \o n \o "v]null[" \o n \o "pad];")

\* VideoAugmenterByFStack.get_command
fstack_get_command(self, video_path, output_path, vi, ai, others) ==
    LET a == fstack_audio_select(self.merge_audio, ai, [i \in 1..3 |-> others[i].audio])
        order == fstack_order(self.target_grid)
        filters ==
            looped_input(n_loops(vi, others[1]), self.paths[1], vi)
            \o looped_input(n_loops(vi, others[2]), self.paths[2], vi)
            \o looped_input(n_loops(vi, others[3]), self.paths[3], vi)
            \o <<"-filter_complex",
                 fstack_video_filter(self, vi, others[1], 1)
                 \o fstack_video_filter(self, vi, others[2], 2)
                 \o fstack_video_filter(self, vi, others[3], 3)
                 \o order[1] \o "hstack=inputs=2[1hstack];"
                 \o order[2] \o "hstack=inputs=2[2hstack];"
                 \o "[2hstack][1hstack]scale2ref=w=oh*mdar:h=-1[2hs][1hs];"
                 \o "[1hs][2hs]vstack=inputs=2[vstack];"
                 \o "[vstack]scale=w=-1:h='min(ih," \o ToString(self.max_height)
                 \o ")',setsar=ratio=1:1[vscale];"
                 \o "[vscale]pad=w=ceil(iw/2)*2:h=ceil(ih/2)*2[v]"
                 \o a.filter,
                 "-map", "[v]">>
            \o a.map \o RateArgs(vi) \o a.codec
    IN standard_filter_fmt(video_path, filters, output_path)

(***************************************************************************)
(* The augmenter objects and the probed inputs the commands are built for. *)
(***************************************************************************)
\* max_width / max_height default of hstack, vstack and fstack
max_width == 1920

max_height == 1920

\* DEFAULT_COLOR
DEFAULT_COLOR == <<0, 0, 0>>

\* what get_video_info returns for the primary input
VideoInfos ==
    [width : {1280}, height : {720}, duration : 1..MaxDuration, r_frame_rate : {30}]
    \cup [width : {720}, height : {1280}, duration : 1..MaxDuration, r_frame_rate : {30}]

\* what get_video_info and get_audio_info return for a secondary input
OtherInfos ==
    [width : {640}, height : {480}, duration : 1..MaxDuration, r_frame_rate : {25},
     audio : BOOLEAN]

\* the paths the constructor stores
OtherPaths(aug) == IF aug = "fstack" THEN <<"second", "third", "fourth">> ELSE <<"second">>

\* the augmenter objects the functional API constructs with valid arguments
Augmenters(aug) ==
    [paths : {OtherPaths(aug)},
     merge_audio : BOOLEAN,
     opacity : {"0.5"},
     x_factor : IF aug = "overlay" THEN {0, 33} ELSE {0},
     y_factor : IF aug = "overlay" THEN {0, 33} ELSE {0},
     target_grid : CASE aug = "fstack" -> 0..3
                     [] aug \in {"hstack", "vstack"} -> 0..1
                     [] OTHER -> {0},
     preserve_aspect_ratio : IF aug \in StackOps THEN BOOLEAN ELSE {FALSE},
     pad_second_video : IF aug \in {"hstack", "vstack"} THEN BOOLEAN ELSE {FALSE},
     pad_video : IF aug = "fstack" THEN BOOLEAN ELSE {FALSE},
     hex_color : {hex_color(DEFAULT_COLOR)},
     max_width : {max_width},
     max_height : {max_height}]

CmdInputs ==
    UNION { [aug : {aug}, built : {FALSE}, self : Augmenters(aug),
             video_info : VideoInfos, audio_info : BOOLEAN,
             others : [1..Len(OtherPaths(aug)) -> OtherInfos],
             args : {<<>>}] : aug \in MultiInputAugs }

Building(aug) == stack = <<>> /\ ~cmd.built /\ cmd.aug = aug

Built(args) == cmd' = [cmd EXCEPT !.built = TRUE, !.args = args]

Idle == UNCHANGED <<call, stack, fs, log, metadata, result, ret, exc>>

\* VideoAugmenterByBlending(...).get_command("video", "out")
blend_build ==
    /\ Building("blend")
    /\ Built(blend_get_command(cmd.self, "video", "out", cmd.video_info, cmd.audio_info,
                               cmd.others))
    /\ Idle

\* VideoAugmenterByOverlay(...).get_command("video", "out")
overlay_build ==
    /\ Building("overlay")
    /\ Built(overlay_get_command(cmd.self, "video", "out", cmd.video_info,
                                 cmd.audio_info, cmd.others))
    /\ Idle

\* VideoAugmenterByHStack(...).get_command("video", "out")
hstack_build ==
    /\ Building("hstack")
    /\ Built(hstack_get_command(cmd.self, "video", "out", cmd.video_info, cmd.audio_info,
                                cmd.others))
    /\ Idle

\* VideoAugmenterByVStack(...).get_command("video", "out")
vstack_build ==
    /\ Building("vstack")
    /\ Built(vstack_get_command(cmd.self, "video", "out", cmd.video_info, cmd.audio_info,
                                cmd.others))
    /\ Idle

\* VideoAugmenterByFStack(...).get_command("video", "out")
fstack_build ==
    /\ Building("fstack")
    /\ Built(fstack_get_command(cmd.self, "video", "out", cmd.video_info, cmd.audio_info,
                                cmd.others))
    /\ Idle

CmdInit ==
    /\ call = [op |-> "get_command"]
    /\ stack = <<>>
    /\ fs = [p \in Paths |-> IF p \in InputPaths THEN Media("input", TRUE, FALSE) ELSE Absent]
    /\ log = <<>>
    /\ metadata = <<>>
    /\ result = "running"
    /\ ret = ""
    /\ exc = ""
    /\ cmd \in CmdInputs

CmdNext ==
    \/ blend_build
    \/ overlay_build
    \/ hstack_build
    \/ vstack_build
    \/ fstack_build

CmdSpec == CmdInit /\ [][CmdNext]_vars

(***************************************************************************)
(* Properties of the commands.                                             *)
(***************************************************************************)
TwoInputAugs == {"blend", "overlay", "hstack", "vstack"}

\* sub occurs in args as consecutive arguments
HasArgs(args, sub) ==
    \E i \in 1..(Len(args) - Len(sub) + 1) : SubSeq(args, i, i + Len(sub) - 1) = sub

\* how often the argument a occurs
CountArg(args, a) == Cardinality({i \in DOMAIN args : args[i] = a})

\* the streams mapped besides the video
AudioMaps(args) ==
    {args[i + 1] : i \in {j \in 1..(Len(args) - 1) : args[j] = "-map"}} \ {"[v]"}

\* the filter graph given to -filter_complex
FilterGraph(args) ==
    args[(CHOOSE i \in 1..(Len(args) - 1) : args[i] = "-filter_complex") + 1]

\* the command the augmenter of c builds for the inputs of c
CommandOf(c) ==
    CASE c.aug = "blend" ->
            blend_get_command(c.self, "video", "out", c.video_info, c.audio_info, c.others)
      [] c.aug = "overlay" ->
            overlay_get_command(c.self, "video", "out", c.video_info, c.audio_info, c.others)
      [] c.aug = "hstack" ->
            hstack_get_command(c.self, "video", "out", c.video_info, c.audio_info, c.others)
      [] c.aug = "vstack" ->
            vstack_get_command(c.self, "video", "out", c.video_info, c.audio_info, c.others)
      [] c.aug = "fstack" ->
            fstack_get_command(c.self, "video", "out", c.video_info, c.audio_info, c.others)

\* the filter graph of the same command when no audio is merged
VideoGraph(c) == FilterGraph(CommandOf([c EXCEPT !.self.merge_audio = FALSE]))

\* the command merges the two audio streams into a stereo [a] and re-encodes
MergeSelected(c) ==
    /\ AudioMaps(c.args) = {"[a]"}
    /\ FilterGraph(c.args) = VideoGraph(c)
            \o ";[0:a:0][1:a:0]amerge=inputs=2,pan=stereo|c0<c0+c2|c1<c1+c3[a]"
    /\ HasArgs(c.args, <<"-c:a", "aac">>)
    /\ ~HasArgs(c.args, <<"-c:a", "copy">>)

\* the command maps one audio stream as it is
CopySelected(c, stream) ==
    /\ AudioMaps(c.args) = {stream}
    /\ FilterGraph(c.args) = VideoGraph(c)
    /\ HasArgs(c.args, <<"-c:a", "copy">>)
    /\ ~HasArgs(c.args, <<"-c:a", "aac">>)

OneAudioMap(c) == CountArg(c.args, "-map") = 2 /\ CountArg(c.args, "-c:a") = 1

SecondAudio == cmd.others[1].audio

\* C7: in blend, overlay, hstack and vstack every combination of (primary has
\* audio, secondary has audio, merge requested) selects exactly one of the three
\* audio branches; the merge branch exactly when merge is requested and both
\* inputs have audio; "neither has audio, merge requested" builds a command
\* that maps 0:a?.
C7_OneAudioBranch ==
    cmd.aug \in TwoInputAugs =>
        /\ ~cmd.built => ENABLED CmdNext
        /\ cmd.built =>
            /\ OneAudioMap(cmd)
            /\ Cardinality({b \in {"merge", "other", "primary"} :
                    CASE b = "merge"   -> MergeSelected(cmd)
                      [] b = "other"   -> CopySelected(cmd, "1:a")
                      [] b = "primary" -> CopySelected(cmd, "0:a?")}) = 1
            /\ MergeSelected(cmd) <=>
                    (cmd.self.merge_audio /\ cmd.audio_info /\ SecondAudio)
            /\ (cmd.self.merge_audio /\ ~cmd.audio_info /\ ~SecondAudio) =>
                    CopySelected(cmd, "0:a?")

C7_Witness ==
    /\ cmd.built /\ cmd.aug = "overlay"
    /\ cmd.self.merge_audio /\ ~cmd.audio_info /\ ~SecondAudio
    /\ HasArgs(cmd.args, <<"-map", "0:a?", "-c:a", "copy">>)

\* C8 as stated: in blend, overlay, hstack and vstack, when the merge branch
\* does not apply and exactly one input has audio, that input's audio stream
\* is the one mapped, with codec copy, whether or not merging was requested.
C8_LoneAudioAlwaysMapped ==
    (cmd.built /\ cmd.aug \in TwoInputAugs /\ cmd.audio_info # SecondAudio) =>
        IF cmd.audio_info THEN CopySelected(cmd, "0:a?") ELSE CopySelected(cmd, "1:a")

\* C8 amended: when exactly one input has audio, the stream is copied, never
\* re-encoded; the primary's lone audio is mapped (as 0:a?) whether or not
\* merging was requested; the secondary's lone audio is mapped (as 1:a) only
\* when merging was requested, and without that request the command maps 0:a?,
\* which matches no stream.
C8_LoneAudioMapped ==
    (cmd.built /\ cmd.aug \in TwoInputAugs /\ cmd.audio_info # SecondAudio) =>
        CASE cmd.audio_info        -> CopySelected(cmd, "0:a?")
          [] cmd.self.merge_audio  -> CopySelected(cmd, "1:a")
          [] OTHER                 -> CopySelected(cmd, "0:a?")

C8_Witness ==
    /\ cmd.built /\ cmd.aug = "vstack"
    /\ ~cmd.audio_info /\ SecondAudio /\ cmd.self.merge_audio
    /\ HasArgs(cmd.args, <<"-map", "1:a">>)
    /\ HasArgs(cmd.args, <<"-c:a", "copy">>)

\* C9: fstack selects its audio mapping by the same three branches as the
\* two-input operations: merge when requested and all four inputs have audio;
\* otherwise, when merge is requested and the primary has no audio, the audio
\* of a secondary that has audio is mapped directly; otherwise 0:a?.
C9_FStackSameBranches ==
    (cmd.built /\ cmd.aug = "fstack") =>
        LET all == cmd.audio_info /\ \A i \in 1..3 : cmd.others[i].audio
            with_audio == {i \in 1..3 : cmd.others[i].audio}
        IN CASE cmd.self.merge_audio /\ all ->
                    /\ AudioMaps(cmd.args) = {"[a]"}
                    /\ HasArgs(cmd.args, <<"-c:a", "aac">>)
             [] cmd.self.merge_audio /\ ~cmd.audio_info /\ with_audio # {} ->
                    \E i \in with_audio : CopySelected(cmd, ToString(i) \o ":a")
             [] OTHER -> CopySelected(cmd, "0:a?")

\* C10: in blend, hstack, vstack and fstack every secondary input of duration
\* d is declared as -stream_loop n -i path -t D, where D is the primary's
\* duration and n is the least count with n * d >= D.
C10_LoopCountAndLimit ==
    (cmd.built /\ cmd.aug \in {"blend", "hstack", "vstack", "fstack"}) =>
        /\ \A i \in DOMAIN cmd.others :
            \E n \in 0..cmd.video_info.duration :
                /\ n * cmd.others[i].duration >= cmd.video_info.duration
                /\ (n - 1) * cmd.others[i].duration < cmd.video_info.duration
                /\ HasArgs(cmd.args, <<"-stream_loop", ToString(n),
                                       "-i", cmd.self.paths[i],
                                       "-t", str_float(cmd.video_info.duration)>>)
        /\ CountArg(cmd.args, "-stream_loop") = Len(cmd.others)
        /\ CountArg(cmd.args, "-t") = Len(cmd.others)

C10_Witness ==
    /\ cmd.built /\ cmd.aug = "fstack"
    /\ cmd.video_info.duration = 3
    /\ cmd.others[1].duration = 1 /\ cmd.others[2].duration = 3
    /\ cmd.others[3].duration = 2
    /\ HasArgs(cmd.args, <<"-stream_loop", "2", "-i", "fourth", "-t", "3.0">>)

(***************************************************************************)
(* Construction and command building of the augmenters, one object at a   *)
(* time.  cmd holds the constructor arguments (kwargs), where the object   *)
(* is in its life (pc: "new" before __init__, "constructed", "raised" when *)
(* __init__ or get_command raised, "built" after get_command), the object  *)
(* (self), the probed inputs (video_info, audio_info of the primary and    *)
(* others for the secondary inputs) and the argument list.  An optional    *)
(* number is <<>> for None and <<x>> for the value x.                      *)
(***************************************************************************)
Some(x) == <<x>>

NoneNum == <<>>

is_None(o) == o = <<>>

ValueOf(o) == o[1]

NewAug(aug, kwargs, video_info) ==
    [aug |-> aug, pc |-> "new", kwargs |-> kwargs, self |-> kwargs,
     video_info |-> video_info, audio_info |-> TRUE, others |-> <<>>,
     args |-> <<>>, exc |-> ""]

\* __init__ is running for an augmenter of class aug
Constructing(aug) == stack = <<>> /\ cmd.aug = aug /\ cmd.pc = "new"

\* get_command is called on a constructed augmenter of class aug
Commanding(aug) == stack = <<>> /\ cmd.aug = aug /\ cmd.pc = "constructed"

\* __init__ ends: every assert passed, or AssertionError
Constructed(ok, self) ==
    cmd' = IF ok THEN [cmd EXCEPT !.pc = "constructed", !.self = self]
           ELSE [cmd EXCEPT !.pc = "raised", !.exc = "AssertionError"]

\* get_command returns args, leaving the object as self
Commanded(args, self) == cmd' = [cmd EXCEPT !.pc = "built", !.args = args, !.self = self]

\* get_command raises
CommandRaised(kind) == cmd' = [cmd EXCEPT !.pc = "raised", !.exc = kind]

Alive == cmd.pc \in {"constructed", "built"}

(***************************************************************************)
(* Trim (trim.py).  Times are whole seconds; the functional API turns a    *)
(* given start or end into a float.                                        *)
(***************************************************************************)
TrimTimes == {NoneNum} \cup {Some(t) : t \in (0 - 1)..(MaxDuration + 1)}

TrimKwargs == [start : TrimTimes, end : TrimTimes]

\* the asserts of VideoAugmenterByTrim.__init__
trim_asserts(start, end) ==
    /\ is_None(start) \/ ValueOf(start) >= 0
    /\ \/ is_None(end)
       \/ (~is_None(start) /\ ValueOf(end) > ValueOf(start))
       \/ ValueOf(end) > 0

\* the int 0 that get_command stores in self.start when start was None
IntZero == <<0, "int">>

\* str(self.start): a float when given, the int 0 when defaulted
trim_str_start(start) ==
    IF is_None(start) \/ start = IntZero THEN "0" ELSE str_float(ValueOf(start))

\* VideoAugmenterByTrim.get_command: the argument list and the object it leaves
trim_get_command(self, video_path, output_path, vi) ==
    LET start == IF is_None(self.start) THEN 0 ELSE ValueOf(self.start)
        end == IF is_None(self.end) THEN vi.duration ELSE ValueOf(self.end)
        duration == end - start
    IN [args |-> <<"-y", "-ss", trim_str_start(self.start), "-i", video_path,
                   "-t", str_float(duration),
                   "-vf", "pad=width=ceil(iw/2)*2:height=ceil(ih/2)*2",
                   "-c:a", "copy">> \o output_fmt(output_path),
        self |-> [self EXCEPT !.start = IF is_None(@) THEN IntZero ELSE @,
                              !.end = Some(end)]]

\* VideoAugmenterByTrim(start, end)
trim_init ==
    /\ Constructing("trim")
    /\ Constructed(trim_asserts(cmd.kwargs.start, cmd.kwargs.end), cmd.kwargs)
    /\ Idle

\* VideoAugmenterByTrim.get_command("video", "out")
trim_build ==
    /\ Commanding("trim")
    /\ LET r == trim_get_command(cmd.self, "video", "out", cmd.video_info)
       IN Commanded(r.args, r.self)
    /\ Idle

\* the same augmenter object used for another video: get_command("second", "out"),
\* the probe of that video differing in its duration
trim_reuse ==
    /\ stack = <<>> /\ cmd.aug = "trim" /\ cmd.pc = "built"
    /\ \E d \in 1..MaxDuration :
        LET vi == [cmd.video_info EXCEPT !.duration = d]
            r == trim_get_command(cmd.self, "second", "out", vi)
        IN cmd' = [cmd EXCEPT !.pc = "rebuilt", !.others = <<vi>>, !.args = r.args,
                              !.self = r.self]
    /\ Idle

\* C11: a constructed Trim has a non-negative start and, when start and end
\* are both given, an end greater than start; the duration (-t) of every
\* command it builds is positive.
C11_TrimEndExceedsStart ==
    (cmd.aug = "trim" /\ Alive) =>
        /\ is_None(cmd.kwargs.start) \/ ValueOf(cmd.kwargs.start) >= 0
        /\ (~is_None(cmd.kwargs.start) /\ ~is_None(cmd.kwargs.end)) =>
                ValueOf(cmd.kwargs.end) > ValueOf(cmd.kwargs.start)
        /\ cmd.pc = "built" =>
                \E d \in 1..(MaxDuration + 1) : HasArgs(cmd.args, <<"-t", str_float(d)>>)

(***************************************************************************)
(* Frame sizes and fractions.  A fraction (crop edge, pad factor, ...) is  *)
(* a whole number of quarters, so that its products with the pixel sizes   *)
(* are exact in floating point as they are here; int() truncates.          *)
(***************************************************************************)
FrameSizes == {<<1920, 1080>>, <<1281, 721>>, <<7, 5>>, <<1, 1>>}

\* what get_video_info returns for the input of a single-input augmenter
FrameInfos ==
    { [width |-> s[1], height |-> s[2], duration |-> d, r_frame_rate |-> 30] :
        s \in FrameSizes, d \in 1..MaxDuration }

\* 1.0, in quarters
Quarter == 4

\* int(n * q) for the fraction q quarters, n * q >= 0
int_of_quarters(n, q) == (n * q) \div Quarter

\* the fractions a caller may pass, in quarters: -0.25 .. 1.25
Fractions == (0 - 1)..(Quarter + 1)

\* the number rounded down to even
even_floor(n) == (n \div 2) * 2

\* the number as it is
left_as_is(n) == n

\* math.ceil(n / 2) * 2
even_ceil(n) == ceil_div(n, 2) * 2

(***************************************************************************)
(* Crop (crop.py).                                                         *)
(***************************************************************************)
CropKwargs == [left : Fractions, top : Fractions, right : Fractions, bottom : Fractions]

\* the asserts of VideoAugmenterByCrop.__init__
crop_asserts(k) ==
    /\ 0 <= k.left /\ k.left <= Quarter
    /\ 0 <= k.top /\ k.top <= Quarter
    /\ k.left < k.right /\ k.right <= Quarter
    /\ k.top < k.bottom /\ k.bottom <= Quarter

\* x1, y1, width, height of VideoAugmenterByCrop.get_command
crop_box(self, vi) ==
    [x1 |-> int_of_quarters(vi.width, self.left),
     y1 |-> int_of_quarters(vi.height, self.top),
     width |-> even_ceil(int_of_quarters(vi.width, self.right - self.left)),
     height |-> even_ceil(int_of_quarters(vi.height, self.bottom - self.top))]

\* VideoAugmenterByCrop.get_command
crop_get_command(self, video_path, output_path, vi) ==
    LET b == crop_box(self, vi)
        filters ==
            <<"-vf", "crop=w=" \o ToString(b.width) \o ":h=" \o ToString(b.height)
                     \o ":x=" \o ToString(b.x1) \o ":y=" \o ToString(b.y1),
              "-c:a", "copy">>
    IN standard_filter_fmt(video_path, filters, output_path)

\* VideoAugmenterByCrop(left, top, right, bottom)
crop_init ==
    /\ Constructing("crop")
    /\ Constructed(crop_asserts(cmd.kwargs), cmd.kwargs)
    /\ Idle

\* VideoAugmenterByCrop.get_command("video", "out")
crop_build ==
    /\ Commanding("crop")
    /\ Commanded(crop_get_command(cmd.self, "video", "out", cmd.video_info), cmd.self)
    /\ Idle

\* t is x truncated, for x = n * q / 4 >= 0
TruncatedTo(t, n, q) == Quarter * t <= n * q /\ n * q < Quarter * (t + 1)

\* e is t rounded up to even
RoundedUpToEven(e, t) == e % 2 = 0 /\ e >= t /\ e - t <= 1

\* the argument that follows the option opt
ArgAfter(args, opt) == args[(CHOOSE i \in 1..(Len(args) - 1) : args[i] = opt) + 1]

\* C12: for crop fractions 0 <= left < right <= 1, 0 <= top < bottom <= 1 the
\* crop filter box is x = left*w and y = top*h truncated, width and height the
\* truncated (right-left)*w and (bottom-top)*h rounded up to even; on a
\* 1920x1080 source crop(0.25, 0.25, 0.75, 0.75) gives w=960:h=540:x=480:y=270.
C12_CropBox ==
    (cmd.aug = "crop" /\ cmd.pc = "built") =>
        LET k == cmd.kwargs
            vi == cmd.video_info
            x == CHOOSE t \in 0..vi.width : TruncatedTo(t, vi.width, k.left)
            y == CHOOSE t \in 0..vi.height : TruncatedTo(t, vi.height, k.top)
            tw == CHOOSE t \in 0..vi.width : TruncatedTo(t, vi.width, k.right - k.left)
            th == CHOOSE t \in 0..vi.height : TruncatedTo(t, vi.height, k.bottom - k.top)
            w == CHOOSE e \in tw..(tw + 1) : RoundedUpToEven(e, tw)
            h == CHOOSE e \in th..(th + 1) : RoundedUpToEven(e, th)
        IN /\ ArgAfter(cmd.args, "-vf") =
                    "crop=w=" \o ToString(w) \o ":h=" \o ToString(h)
                    \o ":x=" \o ToString(x) \o ":y=" \o ToString(y)
           /\ (vi.width = 1920 /\ vi.height = 1080 /\ k.left = 1 /\ k.top = 1
                    /\ k.right = 3 /\ k.bottom = 3) =>
                ArgAfter(cmd.args, "-vf") = "crop=w=960:h=540:x=480:y=270"

C12_Witness ==
    /\ cmd.aug = "crop" /\ cmd.pc = "built"
    /\ cmd.video_info.width = 1920 /\ cmd.video_info.height = 1080
    /\ cmd.kwargs = [left |-> 1, top |-> 1, right |-> 3, bottom |-> 3]
    /\ HasArgs(cmd.args, <<"-vf", "crop=w=960:h=540:x=480:y=270">>)

(***************************************************************************)
(* Aspect ratio (aspect_ratio.py).  The ratio is a number of quarters.     *)
(***************************************************************************)
AspectRatios == {0 - 1, 0, 1, 4, 7, 16, 20}

\* str() of the float q / 4
str_quarters(q) ==
    (IF q < 0 THEN "-" ELSE "")
    \o LET a == IF q < 0 THEN 0 - q ELSE q
       IN ToString(a \div Quarter)
          \o CASE a % Quarter = 0 -> ".0"
               [] a % Quarter = 1 -> ".25"
               [] a % Quarter = 2 -> ".5"
               [] a % Quarter = 3 -> ".75"

RECURSIVE sqrt_above(_, _)
\* a power of two s with s * s > n / 4, from s on
sqrt_above(n, s) == IF Quarter * s * s > n THEN s ELSE sqrt_above(n, 2 * s)

RECURSIVE sqrt_between(_, _, _)
\* the s in lo..hi with s * s <= n / 4 < (s + 1) * (s + 1)
sqrt_between(n, lo, hi) ==
    IF lo = hi THEN lo
    ELSE LET mid == (lo + hi + 1) \div 2
         IN IF Quarter * mid * mid <= n THEN sqrt_between(n, mid, hi)
            ELSE sqrt_between(n, lo, mid - 1)

\* int(sqrt(y)) for y = n / 4 >= 0
int_sqrt_quarters(n) == sqrt_between(n, 0, sqrt_above(n, 1))

\* new_w of VideoAugmenterByAspectRatio.get_command
aspect_ratio_new_w(self, vi) ==
    even_ceil(int_sqrt_quarters(vi.width * vi.height * self.aspect_ratio))

\* new_h, for new_w > 0
aspect_ratio_new_h(self, vi) ==
    even_ceil((vi.width * vi.height) \div aspect_ratio_new_w(self, vi))

\* VideoAugmenterByAspectRatio.get_command, for new_w > 0
aspect_ratio_get_command(self, video_path, output_path, vi) ==
    LET filters ==
            <<"-vf", "scale=width=" \o ToString(aspect_ratio_new_w(self, vi))
                     \o ":height=" \o ToString(aspect_ratio_new_h(self, vi)) \o ","
                     \o "setsar=ratio=1:1,"
                     \o "setdar=ratio=" \o str_quarters(self.aspect_ratio),
              "-c:a", "copy">>
    IN standard_filter_fmt(video_path, filters, output_path)

\* VideoAugmenterByAspectRatio(ratio)
aspect_ratio_init ==
    /\ Constructing("aspect_ratio")
    /\ Constructed(cmd.kwargs.ratio > 0, [aspect_ratio |-> cmd.kwargs.ratio])
    /\ Idle

\* VideoAugmenterByAspectRatio.get_command("video", "out"); area / new_w raises
\* ZeroDivisionError when new_w is 0
aspect_ratio_build ==
    /\ Commanding("aspect_ratio")
    /\ IF aspect_ratio_new_w(cmd.self, cmd.video_info) = 0
       THEN CommandRaised("ZeroDivisionError")
       ELSE Commanded(aspect_ratio_get_command(cmd.self, "video", "out", cmd.video_info),
                      cmd.self)
    /\ Idle

\* C14: a ratio <= 0 is rejected at construction; for every positive ratio and
\* every source the command is built without error, and the scale filter asks
\* for a positive even width and a positive even height.
C14_AspectRatioBuilt ==
    cmd.aug = "aspect_ratio" =>
        /\ cmd.kwargs.ratio <= 0 => ~Alive
        /\ cmd.kwargs.ratio > 0 => cmd.exc = ""
        /\ cmd.pc = "built" =>
            LET w == aspect_ratio_new_w(cmd.self, cmd.video_info)
                h == aspect_ratio_new_h(cmd.self, cmd.video_info)
            IN /\ w > 0 /\ w % 2 = 0
               /\ h > 0 /\ h % 2 = 0
               /\ ArgAfter(cmd.args, "-vf") =
                        "scale=width=" \o ToString(w) \o ":height=" \o ToString(h)
                        \o ",setsar=ratio=1:1,setdar=ratio="
                        \o str_quarters(cmd.kwargs.ratio)

(***************************************************************************)
(* Resize, Pad, Rotate, Transpose and Scale (resize.py, pad.py, rotate.py, *)
(* transpose.py, resolution.py).  The str() of a float quotient a / b that *)
(* is written into a filter is kept as the fraction, and pi as its name.   *)
(***************************************************************************)
str_quotient(a, b) == ToString(a) \o "/" \o ToString(b)

\* the filter that pads a frame to even width and height
PadToEven == "pad=width=ceil(iw/2)*2:height=ceil(ih/2)*2"

ResizeDims == {NoneNum, Some(0 - 2), Some(0), Some(3), Some(640)}

ResizeKwargs == [width : ResizeDims, height : ResizeDims]

\* the asserts of VideoAugmenterByResize.__init__
resize_asserts(k) ==
    /\ is_None(k.width) \/ ValueOf(k.width) > 0
    /\ is_None(k.height) \/ ValueOf(k.height) > 0

\* the truth value Python gives an optional number
truthy(o) == ~is_None(o) /\ ValueOf(o) # 0

\* new_width, new_height of VideoAugmenterByResize.get_command
resize_new_size(self, vi) ==
    IF truthy(self.width) /\ truthy(self.height)
    THEN [w |-> even_ceil(ValueOf(self.width)), h |-> even_ceil(ValueOf(self.height))]
    ELSE IF truthy(self.width)
    THEN [w |-> even_ceil(ValueOf(self.width)),
          h |-> ceil_div(vi.height * ValueOf(self.width), 2 * vi.width) * 2]
    ELSE IF truthy(self.height)
    THEN [w |-> ceil_div(vi.width * ValueOf(self.height), 2 * vi.height) * 2,
          h |-> even_ceil(ValueOf(self.height))]
    ELSE [w |-> even_ceil(vi.width), h |-> even_ceil(vi.height)]

\* VideoAugmenterByResize.get_command
resize_get_command(self, video_path, output_path, vi) ==
    LET n == resize_new_size(self, vi)
        filters ==
            <<"-vf", "scale=width=" \o ToString(n.w) \o ":height=" \o ToString(n.h) \o ","
                     \o PadToEven \o ","
                     \o "setsar=ratio=1:1,"
                     \o "setdar=ratio=" \o str_quotient(n.w, n.h)>>
    IN standard_filter_fmt(video_path, filters, output_path)

\* VideoAugmenterByResize(width, height)
resize_init ==
    /\ Constructing("resize")
    /\ Constructed(resize_asserts(cmd.kwargs), cmd.kwargs)
    /\ Idle

\* VideoAugmenterByResize.get_command("video", "out")
resize_build ==
    /\ Commanding("resize")
    /\ Commanded(resize_get_command(cmd.self, "video", "out", cmd.video_info), cmd.self)
    /\ Idle

\* w_factor and h_factor in quarters
PadKwargs == [w_factor : {0 - 1, 0, 1, 5}, h_factor : {0 - 1, 0, 1, 5},
              color : {DEFAULT_COLOR}]

\* left, top of VideoAugmenterByPadding.get_command
pad_left(self, vi) == int_of_quarters(vi.width, self.w_factor)

pad_top(self, vi) == int_of_quarters(vi.height, self.h_factor)

\* VideoAugmenterByPadding.get_command
pad_get_command(self, video_path, output_path, vi) ==
    LET filters ==
            <<"-vf", "pad=width=" \o ToString(pad_left(self, vi) * 2) \o "+ceil(iw/2)*2"
                     \o ":height=" \o ToString(pad_top(self, vi) * 2) \o "+ceil(ih/2)*2"
                     \o ":x=" \o ToString(pad_left(self, vi))
                     \o ":y=" \o ToString(pad_top(self, vi))
                     \o ":color=" \o self.hex_color,
              "-c:a", "copy">>
    IN standard_filter_fmt(video_path, filters, output_path)

\* VideoAugmenterByPadding(w_factor, h_factor, color)
pad_init ==
    /\ Constructing("pad")
    /\ Constructed(cmd.kwargs.w_factor >= 0 /\ cmd.kwargs.h_factor >= 0,
                   [w_factor |-> cmd.kwargs.w_factor, h_factor |-> cmd.kwargs.h_factor,
                    hex_color |-> hex_color(cmd.kwargs.color)])
    /\ Idle

\* VideoAugmenterByPadding.get_command("video", "out")
pad_build ==
    /\ Commanding("pad")
    /\ Commanded(pad_get_command(cmd.self, "video", "out", cmd.video_info), cmd.self)
    /\ Idle

\* whole degrees
RotateKwargs == [degrees : {0 - 90, 0, 45, 90}]

\* VideoAugmenterByRotation.get_command
rotate_get_command(self, video_path, output_path) ==
    LET filters ==
            <<"-vf", "rotate=" \o ToString(self.degrees) \o "*pi/180," \o PadToEven,
              "-c:a", "copy">>
    IN standard_filter_fmt(video_path, filters, output_path)

\* VideoAugmenterByRotation(degrees): no check
rotate_init ==
    /\ Constructing("rotate")
    /\ Constructed(TRUE, cmd.kwargs)
    /\ Idle

\* VideoAugmenterByRotation.get_command("video", "out")
rotate_build ==
    /\ Commanding("rotate")
    /\ Commanded(rotate_get_command(cmd.self, "video", "out"), cmd.self)
    /\ Idle

TransposeKwargs == [direction : (0 - 1)..4]

\* VideoAugmenterByTransposition.get_command
transpose_get_command(self, video_path, output_path) ==
    LET filters ==
            <<"-vf", "transpose=" \o ToString(self.direction) \o "," \o PadToEven,
              "-c:a", "copy">>
    IN standard_filter_fmt(video_path, filters, output_path)

\* VideoAugmenterByTransposition(direction)
transpose_init ==
    /\ Constructing("transpose")
    /\ Constructed(cmd.kwargs.direction \in 0..3, cmd.kwargs)
    /\ Idle

\* VideoAugmenterByTransposition.get_command("video", "out")
transpose_build ==
    /\ Commanding("transpose")
    /\ Commanded(transpose_get_command(cmd.self, "video", "out"), cmd.self)
    /\ Idle

\* the factor in quarters
ScaleKwargs == [factor : {0 - 1, 0, 2, 6}]

\* VideoAugmenterByResolution.get_command
scale_get_command(self, video_path, output_path) ==
    LET filters ==
            <<"-vf", "scale=height:ih*" \o str_quarters(self.factor)
                     \o ":width=iw*" \o str_quarters(self.factor) \o ","
                     \o PadToEven>>
    IN standard_filter_fmt(video_path, filters, output_path)

\* VideoAugmenterByResolution(factor)
scale_init ==
    /\ Constructing("scale")
    /\ Constructed(cmd.kwargs.factor > 0, cmd.kwargs)
    /\ Idle

\* VideoAugmenterByResolution.get_command("video", "out")
scale_build ==
    /\ Commanding("scale")
    /\ Commanded(scale_get_command(cmd.self, "video", "out"), cmd.self)
    /\ Idle

(***************************************************************************)
(* Construction of the multi-input augmenters (blend.py, overlay.py,       *)
(* hstack.py, vstack.py, fstack.py); their commands are built by the       *)
(* get_command operators above.  Every secondary input is an existing      *)
(* 640x480 file with audio.                                                *)
(***************************************************************************)
OtherInfo ==
    [width |-> 640, height |-> 480, duration |-> 1, r_frame_rate |-> 25, audio |-> TRUE]

\* an augmenter with secondary inputs, before __init__
NewMultiAug(aug, kwargs, video_info) ==
    [NewAug(aug, kwargs, video_info) EXCEPT
        !.others = [i \in 1..Len(OtherPaths(aug)) |-> OtherInfo]]

\* the fields every multi-input get_command operator reads
MultiSelf ==
    [paths |-> <<"second">>, merge_audio |-> FALSE, opacity |-> "0.5",
     x_factor |-> 0, y_factor |-> 0, target_grid |-> 0,
     preserve_aspect_ratio |-> FALSE, pad_second_video |-> FALSE, pad_video |-> FALSE,
     hex_color |-> hex_color(DEFAULT_COLOR), max_width |-> max_width,
     max_height |-> max_height]

\* opacity in quarters
BlendKwargs == [overlay_path : {"second"}, opacity : Fractions, merge_audio : BOOLEAN]

\* VideoAugmenterByBlending(overlay_path, opacity, merge_audio): only the path
\* is validated
blend_init ==
    /\ Constructing("blend")
    /\ Constructed(is_file(fs, cmd.kwargs.overlay_path),
                   [MultiSelf EXCEPT !.paths = <<cmd.kwargs.overlay_path>>,
                                     !.opacity = str_quarters(cmd.kwargs.opacity),
                                     !.merge_audio = cmd.kwargs.merge_audio])
    /\ Idle

\* VideoAugmenterByBlending.get_command("video", "out") on the constructed object
blend_command ==
    /\ Commanding("blend")
    /\ Commanded(blend_get_command(cmd.self, "video", "out", cmd.video_info,
                                   cmd.audio_info, cmd.others), cmd.self)
    /\ Idle

\* C15: an opacity outside [0, 1] is rejected when the operation is
\* constructed, so no command carries an out-of-range opacity (checked on
\* blend, the first of the operations that take an opacity).
C15_OpacityValidated ==
    (cmd.aug = "blend" /\ Alive) =>
        /\ 0 <= cmd.kwargs.opacity /\ cmd.kwargs.opacity <= Quarter
        /\ cmd.pc = "built" =>
            \E o \in 0..Quarter :
                FilterGraph(cmd.args) =
                    "[1:v:0]scale=w=" \o ToString(cmd.video_info.width)
                    \o ":h=" \o ToString(cmd.video_info.height) \o "[1v];"
                    \o "[0:v:0][1v]blend=all_mode=overlay:all_opacity=" \o str_quarters(o)
                    \o "[bv];[bv]" \o EvenPad
                    \o (IF cmd.kwargs.merge_audio
                        THEN ";[0:a:0][1:a:0]amerge=inputs=2,pan=stereo|c0<c0+c2|c1<c1+c3[a]"
                        ELSE "")

\* validate_rgb_color
validate_rgb_color(color) == Len(color) = 3 /\ \A i \in DOMAIN color : 0 <= color[i] /\ color[i] <= 255

\* the caps a caller passes as max_width / max_height
Caps == {13, max_width, 2561, 4000}

\* the arguments of hstack, vstack and fstack as the functional API passes them
\* on; cap is max_width for hstack and max_height for vstack and fstack
StackKwargs(aug) ==
    [paths : {OtherPaths(aug)},
     target_grid : (0 - 1)..(IF aug = "fstack" THEN 4 ELSE 2),
     pad : BOOLEAN,
     pad_color : {DEFAULT_COLOR, <<0, 0, 256>>},
     cap : Caps]

\* the object the three constructors build from their arguments
StackSelf(k) ==
    [MultiSelf EXCEPT !.paths = k.paths, !.target_grid = k.target_grid,
                      !.pad_second_video = k.pad, !.pad_video = k.pad,
                      !.hex_color = IF validate_rgb_color(k.pad_color)
                                    THEN hex_color(k.pad_color) ELSE "",
                      !.max_width = k.cap, !.max_height = k.cap]

\* the asserts of the three constructors; grids is [0,1] or [0,1,2,3]
stack_asserts(k, grids) ==
    /\ k.target_grid \in grids
    /\ validate_rgb_color(k.pad_color)
    /\ \A i \in DOMAIN k.paths : is_file(fs, k.paths[i])

\* VideoAugmenterByHStack(...)
hstack_init ==
    /\ Constructing("hstack")
    /\ Constructed(stack_asserts(cmd.kwargs, 0..1), StackSelf(cmd.kwargs))
    /\ Idle

\* VideoAugmenterByVStack(...)
vstack_init ==
    /\ Constructing("vstack")
    /\ Constructed(stack_asserts(cmd.kwargs, 0..1), StackSelf(cmd.kwargs))
    /\ Idle

\* VideoAugmenterByFStack(...)
fstack_init ==
    /\ Constructing("fstack")
    /\ Constructed(stack_asserts(cmd.kwargs, 0..3), StackSelf(cmd.kwargs))
    /\ Idle

\* VideoAugmenterByHStack.get_command("video", "out") on the constructed object
hstack_command ==
    /\ Commanding("hstack")
    /\ Commanded(hstack_get_command(cmd.self, "video", "out", cmd.video_info,
                                    cmd.audio_info, cmd.others), cmd.self)
    /\ Idle

\* VideoAugmenterByVStack.get_command("video", "out") on the constructed object
vstack_command ==
    /\ Commanding("vstack")
    /\ Commanded(vstack_get_command(cmd.self, "video", "out", cmd.video_info,
                                    cmd.audio_info, cmd.others), cmd.self)
    /\ Idle

\* VideoAugmenterByFStack.get_command("video", "out") on the constructed object
fstack_command ==
    /\ Commanding("fstack")
    /\ Commanded(fstack_get_command(cmd.self, "video", "out", cmd.video_info,
                                    cmd.audio_info, cmd.others), cmd.self)
    /\ Idle

\* x_factor, y_factor in percent
OverlayKwargs == [overlay_path : {"second"}, x_factor : {0 - 1, 0, 33, 101},
                  y_factor : {0, 33}, merge_audio : {FALSE}]

\* VideoAugmenterByOverlay(overlay_path, x_factor, y_factor, merge_audio)
overlay_init ==
    /\ Constructing("overlay")
    /\ Constructed(/\ is_file(fs, cmd.kwargs.overlay_path)
                   /\ 0 <= cmd.kwargs.x_factor /\ cmd.kwargs.x_factor <= 100
                   /\ 0 <= cmd.kwargs.y_factor /\ cmd.kwargs.y_factor <= 100,
                   [MultiSelf EXCEPT !.paths = <<cmd.kwargs.overlay_path>>,
                                     !.x_factor = cmd.kwargs.x_factor,
                                     !.y_factor = cmd.kwargs.y_factor,
                                     !.merge_audio = cmd.kwargs.merge_audio])
    /\ Idle

\* VideoAugmenterByOverlay.get_command("video", "out") on the constructed object
overlay_command ==
    /\ Commanding("overlay")
    /\ Commanded(overlay_get_command(cmd.self, "video", "out", cmd.video_info,
                                     cmd.audio_info, cmd.others), cmd.self)
    /\ Idle

\* the label of input i in the stacking filters of fstack
GridLabel(i) == IF i = 0 THEN "[0:v:0]" ELSE "[" \o ToString(i) \o "pad]"

\* the one-to-one assignments of the four inputs to the four slots
\* (0 top-left, 1 top-right, 2 bottom-left, 3 bottom-right)
GridAssignments == {p \in [0..3 -> 0..3] : \A i, j \in 0..3 : p[i] = p[j] => i = j}

\* the filter graph of fstack with the inputs placed by p: two horizontal
\* pairs, the first stacked above the second
GridGraph(c, p) ==
    fstack_video_filter(c.self, c.video_info, c.others[1], 1)
    \o fstack_video_filter(c.self, c.video_info, c.others[2], 2)
    \o fstack_video_filter(c.self, c.video_info, c.others[3], 3)
    \o GridLabel(p[0]) \o GridLabel(p[1]) \o "hstack=inputs=2[1hstack];"
    \o GridLabel(p[2]) \o GridLabel(p[3]) \o "hstack=inputs=2[2hstack];"
    \o "[2hstack][1hstack]scale2ref=w=oh*mdar:h=-1[2hs][1hs];"
    \o "[1hs][2hs]vstack=inputs=2[vstack];"
    \o "[vstack]scale=w=-1:h='min(ih," \o ToString(c.kwargs.cap)
    \o ")',setsar=ratio=1:1[vscale];"
    \o "[vscale]pad=w=ceil(iw/2)*2:h=ceil(ih/2)*2[v]"

\* C19: fstack rejects a target_grid outside {0,1,2,3} at construction; for
\* target_grid g the primary stands in slot g, each other input in exactly one
\* of the remaining slots, and the grid is two horizontal pairs, the first
\* above the second.
C19_FStackGrid ==
    cmd.aug = "fstack" =>
        /\ cmd.kwargs.target_grid \notin 0..3 => ~Alive
        /\ (cmd.kwargs.target_grid \in 0..3 /\ validate_rgb_color(cmd.kwargs.pad_color)) =>
                cmd.exc = ""
        /\ cmd.pc = "built" =>
                \E p \in GridAssignments :
                    /\ p[cmd.kwargs.target_grid] = 0
                    /\ FilterGraph(cmd.args) = GridGraph(cmd, p)

C19_Witness ==
    /\ cmd.aug = "fstack" /\ cmd.pc = "built" /\ cmd.kwargs.target_grid = 2
    /\ \E p \in GridAssignments : p[2] = 0 /\ FilterGraph(cmd.args) = GridGraph(cmd, p)

\* min(a, b) of the scale filter
min_of(a, b) == IF a < b THEN a ELSE b

\* the width of [hstack], the height of [vstack]: the secondary inputs are
\* scaled (and padded) to the primary's size before they are stacked
stacked_extent(aug, vi) == IF aug = "hstack" THEN 2 * vi.width ELSE 2 * vi.height

\* what scale=...'min(iw,cap)'... followed by pad=w=ceil(iw/2)*2:h=ceil(ih/2)*2
\* makes of the stacked extent
capped_extent(extent, cap) == even_ceil(min_of(extent, cap))

\* C20: the final frame of hstack is never wider than max_width and the final
\* frame of vstack and fstack never taller than max_height, for every cap, odd
\* or even; a stacked frame within the cap keeps its size.
C20_StackWithinCap ==
    (cmd.aug \in StackOps /\ cmd.pc = "built") =>
        LET cap == IF cmd.aug = "hstack" THEN cmd.self.max_width ELSE cmd.self.max_height
            extent == stacked_extent(cmd.aug, cmd.video_info)
        IN /\ capped_extent(extent, cap) <= cap
           /\ extent <= cap => capped_extent(extent, cap) = extent

(***************************************************************************)
(* concat (functional.py) with VideoAugmenterByConcat (concat.py), for the *)
(* arguments and the sizes of the inputs.  cmd.others holds what the       *)
(* probes say about each caller's path, cmd.acc is video_paths_with_audio, *)
(* cmd.infos what the probes say about its members.  pc: "loop" in the for *)
(* loop, then the life of the augmenter, "done" after its subprocess.      *)
(***************************************************************************)
ConcatPaths == <<"video", "second", "third">>

\* what the probes return for a path given to concat
ConcatInfos ==
    [width : {1280}, height : {720}, duration : {1}, r_frame_rate : {30}, audio : BOOLEAN]
    \cup [width : {721}, height : {1281}, duration : {1}, r_frame_rate : {30},
          audio : BOOLEAN]

ConcatKwargs == [video_paths : {ConcatPaths}, src_video_path_index : 0..3,
                 pad_color : {DEFAULT_COLOR}]

NewConcat(kwargs, others) ==
    [aug |-> "concat", pc |-> "loop", kwargs |-> kwargs, self |-> kwargs,
     video_info |-> others[1], audio_info |-> others[1].audio, others |-> others,
     acc |-> <<>>, infos |-> <<>>, args |-> <<>>, exc |-> ""]

\* one turn of `for path in video_paths`: a path without audio is replaced by
\* the output of add_silent_audio (-c:v copy, -c:a aac), which is there when
\* its subprocess succeeded
concat_turn ==
    /\ stack = <<>> /\ cmd.aug = "concat" /\ cmd.pc = "loop"
    /\ Len(cmd.acc) < Len(cmd.kwargs.video_paths)
    /\ LET i == Len(cmd.acc) + 1
           path == cmd.kwargs.video_paths[i]
           log1 == Append(log, ProbeEntry("concat", path))
       IN IF cmd.others[i].audio
          THEN /\ cmd' = [cmd EXCEPT !.acc = Append(@, path),
                                     !.infos = Append(@, cmd.others[i])]
               /\ log' = log1
               /\ fs' = fs
          ELSE \E rc \in {"ok", "error"} :
                 /\ cmd' = [cmd EXCEPT !.acc = Append(@, SilentPath(i)),
                                       !.infos = Append(@, [cmd.others[i] EXCEPT
                                                                !.audio = TRUE])]
                 /\ log' = Append(log1, ToolEntry("add_silent_audio", SilentPath(i), rc))
                 /\ fs' = IF rc = "ok"
                          THEN [fs EXCEPT ![SilentPath(i)] =
                                    Media("add_silent_audio", TRUE, FALSE)]
                          ELSE fs
    /\ UNCHANGED <<call, stack, metadata, result, ret, exc>>

\* the loop is over
concat_loop_end ==
    /\ stack = <<>> /\ cmd.aug = "concat" /\ cmd.pc = "loop"
    /\ Len(cmd.acc) = Len(cmd.kwargs.video_paths)
    /\ cmd' = [cmd EXCEPT !.pc = "new"]
    /\ Idle

\* VideoAugmenterByConcat(video_paths_with_audio, src_video_path_index, pad_color)
concat_init ==
    /\ Constructing("concat")
    /\ Constructed(/\ Len(cmd.acc) > 0
                   /\ Len(cmd.acc) > cmd.kwargs.src_video_path_index
                   /\ validate_rgb_color(cmd.kwargs.pad_color)
                   /\ \A i \in DOMAIN cmd.acc : is_file(fs, cmd.acc[i]),
                   [video_paths |-> cmd.acc,
                    src_video_path_index |-> cmd.kwargs.src_video_path_index,
                    video_infos |-> cmd.infos,
                    hex_color |-> hex_color(cmd.kwargs.pad_color)])
    /\ log' = IF cmd'.pc = "constructed"
              THEN log \o [i \in 1..Len(cmd.acc) |-> ProbeEntry("concat", cmd.acc[i])]
              ELSE log
    /\ UNCHANGED <<call, stack, fs, metadata, result, ret, exc>>

RECURSIVE concat_scale_filter(_, _, _, _)
\* scale_filter of VideoAugmenterByConcat.get_command, from input i (0-based) on
concat_scale_filter(self, width, height, i) ==
    IF i >= Len(self.video_paths) THEN ""
    ELSE LET n == ToString(i)
             vi == self.video_infos[i + 1]
         IN (IF vi.width * height < width * vi.height
             THEN "[" \o n \o ":v:0]scale=w=-1:h=" \o ToString(height) \o "[" \o n \o "scale];"
             ELSE "[" \o n \o ":v:0]scale=w=" \o ToString(width) \o ":h=-1[" \o n \o "scale];")
            \o "[" \o n \o "scale]pad=w=" \o ToString(width) \o ":h=" \o ToString(height)
            \o ":x=(ow-iw)/2:y=(oh-ih)/2:color=" \o self.hex_color \o "[" \o n \o "pad];"
            \o "[" \o n \o "pad]setsar=ratio=1:1[" \o n \o "sar],"
            \o "[" \o n \o "sar]setdar=ratio=" \o str_quotient(width, height)
            \o "[" \o n \o "v];"
            \o concat_scale_filter(self, width, height, i + 1)

RECURSIVE concat_maps(_, _)
\* maps of VideoAugmenterByConcat.get_command, from input i (0-based) on
concat_maps(self, i) ==
    IF i >= Len(self.video_paths) THEN ""
    ELSE "[" \o ToString(i) \o "v][" \o ToString(i) \o ":a]" \o concat_maps(self, i + 1)

RECURSIVE flat_inputs_reversed(_)
\* the inputs declared last to first
flat_inputs_reversed(paths) ==
    IF paths = <<>> THEN <<>>
    ELSE flat_inputs_reversed(Tail(paths)) \o <<"-i", Head(paths)>>

RECURSIVE flat_inputs(_)
\* flat_inputs: "-i", path for every path
flat_inputs(paths) ==
    IF paths = <<>> THEN <<>> ELSE <<"-i", Head(paths)>> \o flat_inputs(Tail(paths))

\* VideoAugmenterByConcat.get_command
concat_get_command(self, video_path, output_path) ==
    LET video_info == self.video_infos[self.src_video_path_index + 1]
        height == even_ceil(video_info.height)
        width == even_ceil(video_info.width)
    IN <<"-y">> \o flat_inputs(self.video_paths)
       \o <<"-filter_complex",
            concat_scale_filter(self, width, height, 0) \o concat_maps(self, 0)
            \o "concat=n=" \o ToString(Len(self.video_paths)) \o ":v=1:a=1[v][a]",
            "-map", "[v]", "-map", "[a]", "-fps_mode", "cfr",
            "-r", str_float(video_info.r_frame_rate), "-c:a", "aac">>
       \o output_fmt(output_path)

\* concat_aug.get_command(video_paths_with_audio[src_video_path_index], output_path)
concat_command ==
    /\ Commanding("concat")
    /\ Commanded(concat_get_command(cmd.self,
                    cmd.self.video_paths[cmd.self.src_video_path_index + 1], "out"),
                 cmd.self)
    /\ Idle

\* execute_ffmpeg_cmd: the concat subprocess
concat_run ==
    /\ stack = <<>> /\ cmd.aug = "concat" /\ cmd.pc = "built"
    /\ \E rc \in {"ok", "error"} :
        /\ log' = Append(log, ToolEntry("concat", "out", rc))
        /\ fs' = IF rc = "ok" THEN [fs EXCEPT !["out"] = Media("concat", TRUE, FALSE)] ELSE fs
    /\ cmd' = [cmd EXCEPT !.pc = "done"]
    /\ UNCHANGED <<call, stack, metadata, result, ret, exc>>

\* the log entry of the silent-audio subprocess for the caller's input i
IsSilentRun(entry, i) ==
    entry.k = "ffmpeg" /\ entry.by = "add_silent_audio" /\ entry.path = SilentPath(i)

IsConcatRun(entry) == entry.k = "ffmpeg" /\ entry.by = "concat"

\* the path that stands for the caller's input i in the concat command
ConcatInput(i) ==
    IF cmd.others[i].audio THEN cmd.kwargs.video_paths[i] ELSE SilentPath(i)

\* the filter graph that scales and pads every input to width x height
ConcatGraph(width, height) ==
    concat_scale_filter(cmd.self, width, height, 0) \o concat_maps(cmd.self, 0)
    \o "concat=n=" \o ToString(Len(cmd.kwargs.video_paths)) \o ":v=1:a=1[v][a]"

\* the sub-calls of concat: an input without audio has had its silent-audio
\* subprocess before the concat subprocess starts, an input with audio has none
ConcatSubcalls ==
    /\ \A i \in DOMAIN cmd.acc :
        /\ cmd.acc[i] = ConcatInput(i)
        /\ cmd.others[i].audio => ~\E k \in DOMAIN log : IsSilentRun(log[k], i)
        /\ ~cmd.others[i].audio =>
                Cardinality({k \in DOMAIN log : IsSilentRun(log[k], i)}) = 1
    /\ \A j \in DOMAIN log : IsConcatRun(log[j]) =>
        \A i \in DOMAIN cmd.kwargs.video_paths :
            ~cmd.others[i].audio => \E k \in 1..(j - 1) : IsSilentRun(log[k], i)

\* the inputs of the concat command, in the caller's order
ConcatOrder ==
    cmd.pc \in {"built", "done"} =>
        SubSeq(cmd.args, 1, 1 + 2 * Len(cmd.kwargs.video_paths)) =
            <<"-y", "-i", ConcatInput(1), "-i", ConcatInput(2), "-i", ConcatInput(3)>>

\* the input at src_video_path_index
ConcatSource == cmd.others[cmd.kwargs.src_video_path_index + 1]

\* C16 as stated: every input of concat without audio gets a silent-audio
\* subprocess that is over before the concat subprocess starts, inputs with
\* audio get none; the command declares the inputs in the caller's order, a
\* synthesized file in the place of its input, and scales and pads every input
\* to the width and height of the input at src_video_path_index.
C16_ConcatToSourceSize ==
    cmd.aug = "concat" =>
        /\ ConcatSubcalls
        /\ ConcatOrder
        /\ cmd.pc \in {"built", "done"} =>
                FilterGraph(cmd.args) = ConcatGraph(ConcatSource.width, ConcatSource.height)

\* C16 amended: as above, the size every input is scaled and padded to being
\* the width and the height of the input at src_video_path_index, each
\* rounded up to even.
C16_ConcatToEvenSourceSize ==
    cmd.aug = "concat" =>
        /\ ConcatSubcalls
        /\ ConcatOrder
        /\ cmd.pc \in {"built", "done"} =>
                \E w \in ConcatSource.width..(ConcatSource.width + 1),
                   h \in ConcatSource.height..(ConcatSource.height + 1) :
                    /\ w % 2 = 0 /\ h % 2 = 0
                    /\ FilterGraph(cmd.args) = ConcatGraph(w, h)

\* three inputs, the second without audio: its silent-audio run precedes the
\* concat run
C16_Witness ==
    /\ cmd.aug = "concat" /\ cmd.pc = "done"
    /\ cmd.others[1].audio /\ ~cmd.others[2].audio /\ cmd.others[3].audio
    /\ cmd.kwargs.src_video_path_index = 2 /\ cmd.others[3].width = 721
    /\ HasArgs(cmd.args, <<"-y", "-i", "video", "-i", "silent_2", "-i", "third">>)
    /\ \E k, j \in DOMAIN log : k < j /\ IsSilentRun(log[k], 2) /\ IsConcatRun(log[j])

(***************************************************************************)
(* insert_in_background (functional.py), for its arguments: the trim       *)
(* sub-calls it makes, in order, and the concat call that ends it.         *)
(* cmd.video_info is the probe of video_path, cmd.others[1] the probe of   *)
(* background_path; cmd.offset is the local background_offset,             *)
(* cmd.acc is video_paths, cmd.infos what a probe says about its members,  *)
(* cmd.calls the commands of the trim sub-calls made so far.               *)
(***************************************************************************)
\* what the probe returns for background_path
BackgroundInfos ==
    [width : {640}, height : {480}, duration : 1..MaxDuration, r_frame_rate : {25},
     audio : {TRUE}]
    \cup [width : {1281}, height : {721}, duration : 1..MaxDuration, r_frame_rate : {25},
          audio : {TRUE}]

\* what the probe returns for video_path
InsertInfos ==
    [width : {1920}, height : {1080}, duration : 1..MaxDuration, r_frame_rate : {30},
     audio : {TRUE}]

InsertKwargs ==
    [start : TrimTimes, end : TrimTimes,
     background_offset : (0 - 1)..(MaxDuration + 1), pad_color : {DEFAULT_COLOR}]

NewInsert(kwargs, video_info, background_info) ==
    [aug |-> "insert_in_background", pc |-> "validate", kwargs |-> kwargs,
     self |-> kwargs, video_info |-> video_info, audio_info |-> video_info.audio,
     others |-> <<background_info>>, offset |-> kwargs.background_offset,
     acc |-> <<>>, infos |-> <<>>, calls |-> <<>>, args |-> <<>>, exc |-> ""]

Inserting(pc) == stack = <<>> /\ cmd.aug = "insert_in_background" /\ cmd.pc = pc

\* what a probe says about the output of trim: the frame padded to even
trimmed_info(vi) == [vi EXCEPT !.width = even_ceil(@), !.height = even_ceil(@)]

\* trim(video_path, output_path, start, end) from inside insert_in_background:
\* the constructor's asserts, then the command and its subprocess
trim_subcall(video_path, vi, output_path, start, end, pc) ==
    IF ~trim_asserts(start, end)
    THEN /\ cmd' = [cmd EXCEPT !.pc = "raised", !.exc = "AssertionError"]
         /\ log' = log
    ELSE LET c == trim_get_command([start |-> start, end |-> end], video_path,
                                   output_path, vi)
         IN /\ cmd' = [cmd EXCEPT !.pc = pc,
                                  !.acc = Append(@, output_path),
                                  !.infos = Append(@, trimmed_info(vi)),
                                  !.calls = Append(@, c.args)]
            /\ log' = log \o <<ProbeEntry("trim", video_path),
                               ToolEntry("trim", output_path, "ok")>>

\* the offset left as the caller gave it
unclamped_offset(background_offset, duration) == background_offset

\* if background_offset > background_info["duration"]: background_offset = that
clamp_offset(background_offset, duration) ==
    IF background_offset > duration THEN duration ELSE background_offset

\* validate_path(background_path); assert background_offset >= 0;
\* validate_rgb_color(pad_color)
insert_validate ==
    /\ Inserting("validate")
    /\ cmd' = IF /\ is_file(fs, "second")
                 /\ cmd.kwargs.background_offset >= 0
                 /\ validate_rgb_color(cmd.kwargs.pad_color)
              THEN [cmd EXCEPT !.pc = "probe"]
              ELSE [cmd EXCEPT !.pc = "raised", !.exc = "AssertionError"]
    /\ Idle

\* the two probes; background_offset is limited to the background's duration
insert_probe ==
    /\ Inserting("probe")
    /\ cmd' = [cmd EXCEPT !.pc = "before",
                          !.offset = clamp_offset(@, cmd.others[1].duration)]
    /\ log' = log \o <<ProbeEntry("insert_in_background", "video"),
                       ProbeEntry("insert_in_background", "second")>>
    /\ UNCHANGED <<call, stack, fs, metadata, result, ret, exc>>

\* if background_offset > 0: trim(background_path, before_path, end=background_offset)
insert_before ==
    /\ Inserting("before")
    /\ IF cmd.offset > 0
       THEN trim_subcall("second", cmd.others[1], "before_path", NoneNum,
                         Some(cmd.offset), "insert")
       ELSE cmd' = [cmd EXCEPT !.pc = "insert"] /\ log' = log
    /\ UNCHANGED <<call, stack, fs, metadata, result, ret, exc>>

\* trim(video_path, insert_path, start=start, end=end)
insert_insert ==
    /\ Inserting("insert")
    /\ trim_subcall("video", cmd.video_info, "insert_path", cmd.kwargs.start,
                    cmd.kwargs.end, "after")
    /\ UNCHANGED <<call, stack, fs, metadata, result, ret, exc>>

\* if background_offset < duration: trim(background_path, after_path,
\* start=background_offset)
insert_after ==
    /\ Inserting("after")
    /\ IF cmd.offset < cmd.others[1].duration
       THEN trim_subcall("second", cmd.others[1], "after_path", Some(cmd.offset),
                         NoneNum, "concat")
       ELSE cmd' = [cmd EXCEPT !.pc = "concat"] /\ log' = log
    /\ UNCHANGED <<call, stack, fs, metadata, result, ret, exc>>

\* concat(video_paths, output_path or video_path, 0, pad_color): every segment
\* has audio, the command of VideoAugmenterByConcat is built and run
insert_concat ==
    /\ Inserting("concat")
    /\ LET self == [video_paths |-> cmd.acc, src_video_path_index |-> 0,
                    video_infos |-> cmd.infos,
                    hex_color |-> hex_color(cmd.kwargs.pad_color)]
       IN cmd' = [cmd EXCEPT !.pc = "done", !.self = self,
                             !.args = concat_get_command(self, cmd.acc[1], "out")]
    /\ log' = Append(log, ToolEntry("concat", "out", "ok"))
    /\ UNCHANGED <<call, stack, fs, metadata, result, ret, exc>>

\* the background's duration and the offset the segments are cut at
BackgroundDuration == cmd.others[1].duration

CutOffset ==
    IF cmd.kwargs.background_offset < BackgroundDuration
    THEN cmd.kwargs.background_offset ELSE BackgroundDuration

\* a segment: path cut from second ss for t seconds into out
Segment(path, ss, t, out) == [path |-> path, ss |-> ss, t |-> t, out |-> out]

BackgroundBefore ==
    IF CutOffset = 0 THEN <<>>
    ELSE <<Segment("second", "0", ToString(CutOffset) \o ".0", "before_path")>>

MainClip ==
    LET start == IF cmd.kwargs.start = <<>> THEN 0 ELSE cmd.kwargs.start[1]
        end == IF cmd.kwargs.end = <<>> THEN cmd.video_info.duration ELSE cmd.kwargs.end[1]
    IN <<Segment("video", IF cmd.kwargs.start = <<>> THEN "0" ELSE ToString(start) \o ".0",
                 ToString(end - start) \o ".0", "insert_path")>>

BackgroundAfter ==
    IF CutOffset = BackgroundDuration THEN <<>>
    ELSE <<Segment("second", ToString(CutOffset) \o ".0",
                   ToString(BackgroundDuration - CutOffset) \o ".0", "after_path")>>

\* the trim command c cuts the segment s
Cuts(c, s) ==
    /\ HasArgs(c, <<"-ss", s.ss, "-i", s.path, "-t", s.t>>)
    /\ c[Len(c)] = s.out

\* the concat command c declares exactly the outputs of the segments, in order
Joins(c, segments) ==
    /\ c[1] = "-y"
    /\ \A i \in DOMAIN segments : c[2 * i] = "-i" /\ c[2 * i + 1] = segments[i].out
    /\ c[2 * Len(segments) + 2] = "-filter_complex"

\* C17: insert_in_background concatenates background-before, main clip and
\* background-after in that order; background-before is the background cut to
\* [0, offset), background-after the background from offset to its end, the
\* main clip is cut to [start, end), offset being background_offset limited to
\* the background's duration; background-before is left out exactly when
\* offset = 0, background-after exactly when offset is the background's
\* duration, and the main clip is always there.
C17_SegmentsInOrder ==
    Inserting("done") =>
        LET segments == BackgroundBefore \o MainClip \o BackgroundAfter
        IN /\ cmd.offset = CutOffset
           /\ Len(cmd.calls) = Len(segments)
           /\ \A i \in DOMAIN segments : Cuts(cmd.calls[i], segments[i])
           /\ Joins(cmd.args, segments)

\* an offset beyond the background's end: the whole background, then the main
\* clip cut to [1, 2), and nothing after it
C17_Witness ==
    /\ Inserting("done")
    /\ cmd.kwargs.background_offset > BackgroundDuration
    /\ Len(cmd.calls) = 2
    /\ cmd.kwargs.start = <<1>> /\ cmd.kwargs.end = <<2>>
    /\ HasArgs(cmd.args, <<"-y", "-i", "before_path", "-i", "insert_path",
                           "-filter_complex">>)

\* the graph of the concat that ends insert_in_background, every segment
\* scaled and padded to width x height
InsertGraph(width, height) ==
    concat_scale_filter(cmd.self, width, height, 0) \o concat_maps(cmd.self, 0)
    \o "concat=n=" \o ToString(Len(cmd.acc)) \o ":v=1:a=1[v][a]"

\* C18: the output of insert_in_background has the dimensions of the
\* background video (rounded up to even), the main clip being scaled and
\* padded to them, for every background_offset >= 0, 0 included.
C18_BackgroundDimensions ==
    Inserting("done") =>
        \E w \in cmd.others[1].width..(cmd.others[1].width + 1),
           h \in cmd.others[1].height..(cmd.others[1].height + 1) :
            /\ w % 2 = 0 /\ h % 2 = 0
            /\ FilterGraph(cmd.args) = InsertGraph(w, h)

(***************************************************************************)
(* pixelization (functional.py), for its arguments: two resize calls, down *)
(* by ratio and back to the source's size.  The ratio is in quarters.      *)
(***************************************************************************)
PixelizationKwargs == [ratio : {0 - 1, 0, 1, 2, 3}]

NewPixelization(kwargs, video_info) ==
    [aug |-> "pixelization", pc |-> "validate", kwargs |-> kwargs, self |-> kwargs,
     video_info |-> video_info, audio_info |-> TRUE, others |-> <<>>,
     calls |-> <<>>, args |-> <<>>, exc |-> ""]

Pixelizing(pc) == stack = <<>> /\ cmd.aug = "pixelization" /\ cmd.pc = pc

\* resize(video_path, output_path, width, height) from inside pixelization:
\* int() of both, the constructor's asserts, the command and its subprocess
resize_subcall(video_path, vi, output_path, width, height, pc) ==
    LET k == [width |-> Some(width), height |-> Some(height)]
    IN IF ~resize_asserts(k)
       THEN /\ cmd' = [cmd EXCEPT !.pc = "raised", !.exc = "AssertionError"]
            /\ log' = log
       ELSE LET c == resize_get_command(k, video_path, output_path, vi)
            IN /\ cmd' = [cmd EXCEPT !.pc = pc, !.calls = Append(@, c), !.args = c]
               /\ log' = log \o <<ProbeEntry("resize", video_path),
                                  ToolEntry("resize", output_path, "ok")>>

\* assert ratio > 0; the probe of video_path
pixelization_validate ==
    /\ Pixelizing("validate")
    /\ IF cmd.kwargs.ratio > 0
       THEN /\ cmd' = [cmd EXCEPT !.pc = "down"]
            /\ log' = Append(log, ProbeEntry("pixelization", "video"))
       ELSE /\ cmd' = [cmd EXCEPT !.pc = "raised", !.exc = "AssertionError"]
            /\ log' = log
    /\ UNCHANGED <<call, stack, fs, metadata, result, ret, exc>>

\* resize(video_path, output_path, width * ratio, height * ratio)
pixelization_down ==
    /\ Pixelizing("down")
    /\ resize_subcall("video", cmd.video_info, "out",
                      int_of_quarters(cmd.video_info.width, cmd.kwargs.ratio),
                      int_of_quarters(cmd.video_info.height, cmd.kwargs.ratio), "up")
    /\ UNCHANGED <<call, stack, fs, metadata, result, ret, exc>>

\* resize(output_path, output_path, width, height)
pixelization_up ==
    /\ Pixelizing("up")
    /\ resize_subcall("out", cmd.video_info, "out", cmd.video_info.width,
                      cmd.video_info.height, "done")
    /\ UNCHANGED <<call, stack, fs, metadata, result, ret, exc>>

(***************************************************************************)
(* Reading a command back: the text of a filter, and the numbers in it.    *)
(***************************************************************************)
StartsWith(s, t) == Len(s) >= Len(t) /\ SubSeq(s, 1, Len(t)) = t

EndsWith(s, t) == Len(s) >= Len(t) /\ SubSeq(s, Len(s) - Len(t) + 1, Len(s)) = t

Occurs(s, t, i) == i + Len(t) - 1 <= Len(s) /\ SubSeq(s, i, i + Len(t) - 1) = t

Contains(s, t) == \E i \in 1..Len(s) : Occurs(s, t, i)

Digits == <<"0", "1", "2", "3", "4", "5", "6", "7", "8", "9">>

IsDigit(s, i) == i <= Len(s) /\ \E d \in DOMAIN Digits : Digits[d] = SubSeq(s, i, i)

DigitAt(s, i) == (CHOOSE d \in DOMAIN Digits : Digits[d] = SubSeq(s, i, i)) - 1

RECURSIVE NumberFrom(_, _, _)
\* the decimal number whose digits start at position i of s, after acc
NumberFrom(s, i, acc) ==
    IF IsDigit(s, i) THEN NumberFrom(s, i + 1, 10 * acc + DigitAt(s, i)) ELSE acc

\* s has a number right after the first occurrence of key
HasNumberAfter(s, key) ==
    /\ Contains(s, key)
    /\ IsDigit(s, (CHOOSE i \in 1..Len(s) :
                      Occurs(s, key, i) /\ \A j \in 1..(i - 1) : ~Occurs(s, key, j))
                  + Len(key))

\* that number
NumberAfter(s, key) ==
    NumberFrom(s, (CHOOSE i \in 1..Len(s) :
                      Occurs(s, key, i) /\ \A j \in 1..(i - 1) : ~Occurs(s, key, j))
                  + Len(key), 0)

\* the filter asks for a frame of explicit even width and height, the width
\* after wkey and the height after the width and hkey
AsksEvenFrame(s, wkey, hkey) ==
    /\ HasNumberAfter(s, wkey)
    /\ NumberAfter(s, wkey) % 2 = 0
    /\ LET key == wkey \o ToString(NumberAfter(s, wkey)) \o hkey
       IN HasNumberAfter(s, key) /\ NumberAfter(s, key) % 2 = 0

\* what pad=width=ceil(iw/2)*2:height=ceil(ih/2)*2 makes of an incoming frame
padded_to_even(size) == <<even_ceil(size[1]), even_ceil(size[2])>>

\* the even pad leaves every incoming frame, odd or even, even
EvenPadWorks ==
    \A size \in FrameSizes :
        padded_to_even(size)[1] % 2 = 0 /\ padded_to_even(size)[2] % 2 = 0

\* the operations that set or can change the frame's dimensions
DimensionOps ==
    {"resize", "pixelization", "crop", "pad", "aspect_ratio", "scale", "rotate",
     "transpose", "overlay", "blend", "concat"} \cup StackOps

\* the video filter text of the command in cmd.args
VideoFilter ==
    IF cmd.aug \in {"overlay", "blend", "concat"} \cup StackOps
    THEN FilterGraph(cmd.args) ELSE ArgAfter(cmd.args, "-vf")

\* C13: for every operation that sets or can change the frame's dimensions and
\* every source size, odd or even, the width and the height of the final frame
\* the command asks for are both divisible by 2: either they are explicit even
\* numbers, or the last stage that touches the size pads to ceil(iw/2)*2 by
\* ceil(ih/2)*2.
C13_EvenOutput ==
    (cmd.aug \in DimensionOps /\ cmd.pc \in {"built", "up", "done"}) =>
        CASE cmd.aug \in {"resize", "pixelization"} ->
                /\ AsksEvenFrame(VideoFilter, "scale=width=", ":height=")
                /\ Contains(VideoFilter, "," \o "pad=width=ceil(iw/2)*2:height=ceil(ih/2)*2,")
                /\ EvenPadWorks
          [] cmd.aug = "aspect_ratio" ->
                AsksEvenFrame(VideoFilter, "scale=width=", ":height=")
          [] cmd.aug = "crop" -> AsksEvenFrame(VideoFilter, "crop=w=", ":h=")
          [] cmd.aug = "pad" ->
                /\ AsksEvenFrame(VideoFilter, "pad=width=", "+ceil(iw/2)*2:height=")
                /\ Contains(VideoFilter, "+ceil(ih/2)*2:x=")
                /\ EvenPadWorks
          [] cmd.aug \in {"scale", "rotate", "transpose"} ->
                /\ EndsWith(VideoFilter, "," \o "pad=width=ceil(iw/2)*2:height=ceil(ih/2)*2")
                /\ EvenPadWorks
          [] cmd.aug \in {"overlay", "blend"} ->
                /\ Contains(VideoFilter, "]pad=width=ceil(iw/2)*2:height=ceil(ih/2)*2[v]")
                /\ EvenPadWorks
          [] cmd.aug \in StackOps ->
                /\ Contains(VideoFilter, "]pad=w=ceil(iw/2)*2:h=ceil(ih/2)*2[v]")
                /\ EvenPadWorks
          [] cmd.aug = "concat" ->
                /\ AsksEvenFrame(VideoFilter, "scale]pad=w=", ":h=")
                /\ \A i \in DOMAIN cmd.acc :
                    LET n == ToString(i - 1)
                    IN Contains(VideoFilter,
                                "[" \o n \o "scale]pad=w="
                                \o ToString(NumberAfter(VideoFilter, "scale]pad=w="))
                                \o ":h="
                                \o ToString(NumberAfter(VideoFilter,
                                        "scale]pad=w="
                                        \o ToString(NumberAfter(VideoFilter, "scale]pad=w="))
                                        \o ":h="))
                                \o ":x=")

\* an odd width asked of resize on an odd source: the command asks for 4
C13_Witness ==
    /\ cmd.aug = "resize" /\ cmd.pc = "built"
    /\ cmd.kwargs.width = <<3>> /\ cmd.kwargs.height = <<>>
    /\ cmd.video_info.width = 1281 /\ cmd.video_info.height = 721
    /\ StartsWith(ArgAfter(cmd.args, "-vf"), "scale=width=4:height=2,")

(***************************************************************************)
(* The metadata list of a functional-API call.                             *)
(***************************************************************************)
\* C21: with a metadata list, a completed top-level call has appended exactly
\* one record, named after the function that was called; its sub-calls append
\* none, nothing is appended before the call completes, and without a list
\* nothing is appended at all.
C21_OneRecordNamedAfterCall ==
    /\ result = "running" => metadata = <<>>
    /\ result = "returned" =>
            metadata = IF call.meta THEN <<[name |-> call.op]>> ELSE <<>>

\* the place in the log of the probe made by get_func_kwargs / get_metadata
ProbeBy(i, by) == log[i].k = "ffprobe" /\ log[i].by = by

\* C29: in a call with a metadata list the source information is probed, on
\* video_path, before any transformation subprocess of the call has run, and
\* the destination information only after the last one has finished; a call
\* that returns has made both probes.
C29_SourceProbedFirstDestinationLast ==
    /\ \A i \in DOMAIN log :
        /\ ProbeBy(i, "get_func_kwargs") =>
                /\ log[i].path = "video"
                /\ \A j \in 1..(i - 1) : ~ToolRun(j)
        /\ ProbeBy(i, "get_metadata") =>
                /\ log[i].path = FinalPath
                /\ \A j \in (i + 1)..Len(log) : ~ToolRun(j)
    /\ (result = "returned" /\ call.meta) =>
            /\ \E i \in DOMAIN log : ProbeBy(i, "get_func_kwargs")
            /\ ProbeBy(Len(log), "get_metadata")

\* pixelization overwriting its source: both resize runs lie between the probes
C29_Witness ==
    /\ result = "returned" /\ call.meta
    /\ call.op = "pixelization" /\ call.output_path = None
    /\ ProbeBy(1, "get_func_kwargs")
    /\ Cardinality({j \in DOMAIN log : ToolRun(j) /\ log[j].path = "video"}) = 2
    /\ ProbeBy(Len(log), "get_metadata")

(***************************************************************************)
(* Probing (helpers/ffmpeg.py): get_video_info / get_audio_info call        *)
(* get_media_info, which runs ffprobe through execute_ffprobe_cmd.         *)
(* cmd.kwargs.fn is the function called, cmd.kwargs.streams the codec      *)
(* types of the streams the file has; cmd.rc is how the subprocess ended,  *)
(* cmd.stdout what it printed, cmd.ret what the caller gets.               *)
(***************************************************************************)
ProbeKwargs ==
    [fn : {"get_video_info", "get_audio_info"},
     streams : {{}, {"video"}, {"audio"}, {"video", "audio"}, {"video", "subtitle"}}]

NewProbe(kwargs) ==
    [aug |-> "probe", pc |-> "run", kwargs |-> kwargs, self |-> kwargs,
     rc |-> "", stdout |-> "", streams |-> {}, ret |-> "", args |-> <<>>, exc |-> ""]

Probing(pc) == stack = <<>> /\ cmd.aug = "probe" /\ cmd.pc = pc

\* how an ffprobe subprocess can end: exit status 0, a non-zero exit status,
\* death by a signal before it printed anything, or the timeout of run()
ProbeOutcomes == {"ok", "error", "killed", "timeout"}

\* execute_ffprobe_cmd: what leaves the try statement.  run() has no check=True,
\* so a non-zero exit status raises nothing; TimeoutExpired is caught, and its
\* handler formats the undefined name `command`
execute_ffprobe_cmd_raises(rc) == IF rc = "timeout" THEN "NameError" ELSE ""

\* what -v quiet -print_format json -show_streams prints
ffprobe_stdout(rc, streams) ==
    CASE rc = "ok" -> "streams"
      [] rc = "error" -> "{}"
      [] OTHER -> ""

\* result = execute_ffprobe_cmd(cmd)
execute_ffprobe_cmd ==
    /\ Probing("run")
    /\ \E rc \in ProbeOutcomes :
        /\ cmd' = IF execute_ffprobe_cmd_raises(rc) # ""
                  THEN [cmd EXCEPT !.pc = "raised", !.rc = rc,
                                   !.exc = execute_ffprobe_cmd_raises(rc)]
                  ELSE [cmd EXCEPT !.pc = "parse", !.rc = rc,
                                   !.stdout = ffprobe_stdout(rc, cmd.kwargs.streams)]
        /\ log' = Append(log, [k |-> "ffprobe", by |-> cmd.kwargs.fn, path |-> "video",
                               rc |-> rc])
    /\ UNCHANGED <<call, stack, fs, metadata, result, ret, exc>>

\* get_media_info after the subprocess: json.loads(result.stdout), then the
\* streams by codec_type
get_media_info_parse ==
    /\ Probing("parse")
    /\ cmd' = CASE cmd.stdout = "" ->
                    [cmd EXCEPT !.pc = "raised", !.exc = "JSONDecodeError"]
                [] cmd.stdout = "{}" -> [cmd EXCEPT !.pc = "return", !.streams = {}]
                [] OTHER -> [cmd EXCEPT !.pc = "return", !.streams = cmd.kwargs.streams]
    /\ Idle

\* get_video_info / get_audio_info: the first stream of the kind, else None
get_info_return ==
    /\ Probing("return")
    /\ LET kind == IF cmd.kwargs.fn = "get_video_info" THEN "video" ELSE "audio"
       IN cmd' = [cmd EXCEPT !.pc = "returned",
                             !.ret = IF kind \in cmd.streams THEN kind ELSE None]
    /\ Idle

\* C22: probing never raises on a tool failure: when the ffprobe subprocess
\* fails or times out, get_video_info and get_audio_info return None to the
\* caller instead of raising.
C22_ProbeNeverRaises ==
    (cmd.aug = "probe" /\ cmd.rc \in {"error", "timeout"}) =>
        /\ cmd.pc # "raised"
        /\ cmd.pc = "returned" => cmd.ret = None

\* C23: an augmenter is stateless after construction and reusable across
\* videos: get_command leaves its parameters as they were constructed, and the
\* command built for a video depends only on those parameters and that video's
\* own probe; a Trim constructed without end cuts each video to its own
\* duration, and without start from 0.
C23_TrimReusable ==
    (cmd.aug = "trim" /\ cmd.pc \in {"built", "rebuilt"}) =>
        LET vi == IF cmd.pc = "built" THEN cmd.video_info ELSE cmd.others[1]
            path == IF cmd.pc = "built" THEN "video" ELSE "second"
            start == IF cmd.kwargs.start = <<>> THEN 0 ELSE cmd.kwargs.start[1]
            end == IF cmd.kwargs.end = <<>> THEN vi.duration ELSE cmd.kwargs.end[1]
        IN /\ cmd.self = cmd.kwargs
           /\ HasArgs(cmd.args,
                      <<"-ss", IF cmd.kwargs.start = <<>> THEN "0" ELSE ToString(start) \o ".0",
                        "-i", path, "-t", ToString(end - start) \o ".0">>)

\* C24: resize asks for the source's width when width is None and for the
\* source's height when height is None, whatever the other argument is, and for
\* the given values otherwise, each rounded up to even.
C24_ResizeTargets ==
    (cmd.aug = "resize" /\ cmd.pc = "built") =>
        LET w == IF cmd.kwargs.width = <<>> THEN cmd.video_info.width
                 ELSE cmd.kwargs.width[1]
            h == IF cmd.kwargs.height = <<>> THEN cmd.video_info.height
                 ELSE cmd.kwargs.height[1]
        IN StartsWith(ArgAfter(cmd.args, "-vf"),
                      "scale=width=" \o ToString(w + (w % 2))
                      \o ":height=" \o ToString(h + (h % 2)) \o ",")

(***************************************************************************)
(* change_aspect_ratio (functional.py): the conversion of its ratio        *)
(* argument, a float (in quarters) or a string, given by its ':'-separated *)
(* integer parts, before the augmenter is constructed.                     *)
(***************************************************************************)
RatioArgs ==
    {[kind |-> "float", q |-> q, parts |-> <<>>] : q \in AspectRatios}
    \cup {[kind |-> "str", q |-> 0, parts |-> p] :
            p \in {<<16, 9>>, <<4, 3>>, <<1, 1>>, <<4>>, <<1, 2, 3>>}}

NewRatioCall(ratio, video_info) ==
    [NewAug("change_aspect_ratio", [ratio |-> ratio], video_info) EXCEPT !.pc = "convert"]

\* if isinstance(ratio, str): the assert on the number of parts, then
\* str(self.ratio) in a function that has no self; else ratio = float(ratio),
\* and VideoAugmenterByAspectRatio(ratio) is constructed next
change_aspect_ratio_convert ==
    /\ stack = <<>> /\ cmd.aug = "change_aspect_ratio" /\ cmd.pc = "convert"
    /\ LET ratio == cmd.kwargs.ratio
       IN cmd' = IF ratio.kind = "str"
                 THEN IF Len(ratio.parts) # 2
                      THEN [cmd EXCEPT !.pc = "raised", !.exc = "AssertionError"]
                      ELSE [cmd EXCEPT !.pc = "raised", !.exc = "NameError"]
                 ELSE NewAug("aspect_ratio", [ratio |-> ratio.q], cmd.video_info)
    /\ Idle

\* C25: change_aspect_ratio takes a string 'num:denom': with exactly two parts
\* it is converted and the operation proceeds; a string without exactly two
\* parts is rejected with a validation error.
C25_StringRatioAccepted ==
    (cmd.aug = "change_aspect_ratio" /\ cmd.kwargs.ratio.kind = "str") =>
        /\ Len(cmd.kwargs.ratio.parts) = 2 => cmd.pc # "raised"
        /\ Len(cmd.kwargs.ratio.parts) # 2 =>
                cmd.pc \in {"convert", "raised"} /\ cmd.exc \in {"", "AssertionError"}

(***************************************************************************)
(* Transforms (transforms.py): VidAugBaseClass.__init__ and                *)
(* BaseTransform.__call__, called twice on the same transform object.      *)
(* The global generator of the random module is a deterministic generator  *)
(* with RngSize states; random.random() steps it and returns state/RngSize *)
(* in [0, 1), random.seed(seed) sets the state from the seed alone.  p is  *)
(* held in units of 1/RngSize.  cmd.rng is the generator's state, cmd.n    *)
(* the number of the call under way, cmd.calls what the finished calls     *)
(* decided and drew.                                                       *)
(***************************************************************************)
\* the number of values random.random() can return
RngSize == 8

RngStates == 0..(RngSize - 1)

\* the generator's step
rng_next(s) == (5 * s + 3) % RngSize

\* random.seed(seed): the state the seed determines
rng_seed(seed) == (3 * seed + 1) % RngSize

\* force as the caller may pass it: the two bools, and values that are no bool
Forces == {"True", "False", "1", "None"}

\* seed: None or an int
Seeds == {NoneNum, Some(0), Some(1)}

TransformKwargs ==
    [p : {0 - 1, 0, RngSize \div 2, RngSize, RngSize + 1}, force : Forces, seed : Seeds]

NewTransform(kwargs, rng) ==
    [aug |-> "transform", pc |-> "new", kwargs |-> kwargs, self |-> kwargs,
     rng |-> rng, n |-> 1, calls |-> <<>>, args |-> <<>>, exc |-> ""]

Transforming(pc) == stack = <<>> /\ cmd.aug = "transform" /\ cmd.pc = pc

\* `if not force and random.random() > self.p: return video_path`
gate_skips(force, r, p) == force # "True" /\ r > p

\* VidAugBaseClass.__init__: assert 0 <= p <= 1.0
transform_init ==
    /\ Transforming("new")
    /\ Constructed(0 <= cmd.kwargs.p /\ cmd.kwargs.p <= RngSize, cmd.kwargs)
    /\ Idle

\* __call__: assert type(force) == bool
transform_assert ==
    /\ stack = <<>> /\ cmd.aug = "transform" /\ cmd.pc = "constructed"
    /\ cmd' = IF cmd.kwargs.force \in {"True", "False"}
              THEN [cmd EXCEPT !.pc = "gate"]
              ELSE [cmd EXCEPT !.pc = "raised", !.exc = "AssertionError"]
    /\ Idle

\* the gate: with force False a number is drawn from the global generator, and
\* the call returns video_path when it is above p
transform_gate ==
    /\ Transforming("gate")
    /\ LET drawn == cmd.kwargs.force = "False"
           r == rng_next(cmd.rng)
       IN cmd' = IF gate_skips(cmd.kwargs.force, r, cmd.self.p)
                 THEN [cmd EXCEPT !.pc = "returned", !.rng = r,
                                  !.calls = Append(@, [applied |-> FALSE, choice |-> 0])]
                 ELSE [cmd EXCEPT !.pc = "seed", !.rng = IF drawn THEN r ELSE @]
    /\ Idle

\* if seed is not None: random.seed(seed)
transform_seed ==
    /\ Transforming("seed")
    /\ cmd' = [cmd EXCEPT !.pc = "apply",
                          !.rng = IF is_None(cmd.kwargs.seed) THEN @
                                  ELSE rng_seed(ValueOf(cmd.kwargs.seed))]
    /\ Idle

\* apply_transform: the augmentation, whose random choices (the words, speed
\* and colour of the text overlay) are drawn from the global generator
transform_apply ==
    /\ Transforming("apply")
    /\ cmd' = [cmd EXCEPT !.pc = "returned", !.rng = rng_next(@),
                          !.calls = Append(@, [applied |-> TRUE,
                                               choice |-> rng_next(cmd.rng)])]
    /\ Idle

\* the same transform called again with the same arguments, the global
\* generator having been used by others in between
transform_again ==
    /\ Transforming("returned")
    /\ cmd.n = 1
    /\ \E s \in RngStates : cmd' = [cmd EXCEPT !.pc = "constructed", !.n = 2, !.rng = s]
    /\ Idle

\* C26: with force=True a transform is applied for every p in [0, 1]; with
\* force=False it is always applied when p = 1.0 and never applied when
\* p = 0.0; a p outside [0, 1] is rejected at construction and a force that
\* is no bool at call time.
C26_ApplicationGate ==
    cmd.aug = "transform" =>
        /\ \A i \in DOMAIN cmd.calls :
            /\ cmd.kwargs.force = "True" => cmd.calls[i].applied
            /\ (cmd.kwargs.force = "False" /\ cmd.kwargs.p = RngSize) =>
                    cmd.calls[i].applied
            /\ (cmd.kwargs.force = "False" /\ cmd.kwargs.p = 0) => ~cmd.calls[i].applied
        /\ (cmd.kwargs.p < 0 \/ cmd.kwargs.p > RngSize) => cmd.pc \in {"new", "raised"}
        /\ cmd.kwargs.force \notin {"True", "False"} =>
                cmd.pc \in {"new", "constructed", "raised"} /\ cmd.calls = <<>>

\* C30: two calls of the same transform with the same arguments and the same
\* seed (not None), force=False, make the same apply/skip decision and, when
\* applied, the same random choices, whatever state the global generator was
\* in before each call.
C30_ReproducibleFromSeed ==
    (cmd.aug = "transform" /\ cmd.kwargs.force = "False" /\ ~is_None(cmd.kwargs.seed)
        /\ Len(cmd.calls) = 2) =>
            cmd.calls[1] = cmd.calls[2]

\* C28: for every crop accepted at construction and every source (w, h) the
\* crop box in the command lies inside the source frame and is not empty:
\* width >= 2, height >= 2, x + width <= w and y + height <= h.
C28_CropBoxInsideFrame ==
    (cmd.aug = "crop" /\ cmd.pc = "built") =>
        LET vf == ArgAfter(cmd.args, "-vf")
            width == NumberAfter(vf, "crop=w=")
            height == NumberAfter(vf, ":h=")
            x == NumberAfter(vf, ":x=")
            y == NumberAfter(vf, ":y=")
        IN /\ width >= 2 /\ height >= 2
           /\ x + width <= cmd.video_info.width
           /\ y + height <= cmd.video_info.height

(***************************************************************************)
(* The augmenters whose argument lists are not built by                    *)
(* standard_filter_fmt alone: loop.py, quality.py, silent_audio.py, and    *)
(* audio_swap.py with its second input and stream maps.                    *)
(***************************************************************************)
LoopKwargs == [num_loops : (0 - 1)..2]

\* VideoAugmenterByLoops(num_loops)
loop_init ==
    /\ Constructing("loop")
    /\ Constructed(cmd.kwargs.num_loops >= 0, cmd.kwargs)
    /\ Idle

\* VideoAugmenterByLoops.get_command("video", "out")
loop_build ==
    /\ Commanding("loop")
    /\ Commanded(<<"-y", "-stream_loop", ToString(cmd.self.num_loops), "-i", "video",
                   "-vf", PadToEven, "-c:a", "copy">> \o output_fmt("out"),
                 cmd.self)
    /\ Idle

QualityKwargs == [quality : {0 - 1, 0, 23, 51, 52}]

\* VideoAugmenterByQuality(quality)
quality_init ==
    /\ Constructing("quality")
    /\ Constructed(0 <= cmd.kwargs.quality /\ cmd.kwargs.quality <= 51, cmd.kwargs)
    /\ Idle

\* VideoAugmenterByQuality.get_command("video", "out")
quality_build ==
    /\ Commanding("quality")
    /\ Commanded(input_fmt("video")
                 \o <<"-vf", PadToEven, "-c:v", "libx264",
                      "-crf", ToString(cmd.self.quality), "-preset", "slow",
                      "-c:a", "copy", "out">>,
                 cmd.self)
    /\ Idle

\* VideoAugmenterByAddingSilentAudio().get_command("video", "out"); the class
\* has no __init__ of its own
silent_audio_build ==
    /\ Constructing("silent_audio")
    /\ Commanded(input_fmt("video")
                 \o <<"-f", "lavfi", "-i", "anullsrc", "-c:v", "copy", "-c:a", "aac",
                      "-shortest", "out">>,
                 cmd.self)
    /\ Idle

\* the offset is a float of whole seconds; "temp_path" does not exist
AudioSwapKwargs == [audio_path : {"second", "temp_path"}, audio_offset : (0 - 1)..1]

\* what get_audio_info returns for the audio file: whole seconds, 44100 Hz
AudioInfos == {[duration |-> d, sample_rate |-> 44100] : d \in 1..MaxDuration}

\* VideoAugmenterByAudioSwap(audio_path, audio_offset)
audio_swap_init ==
    /\ Constructing("audio_swap")
    /\ Constructed(is_file(fs, cmd.kwargs.audio_path) /\ cmd.kwargs.audio_offset >= 0,
                   cmd.kwargs)
    /\ Idle

\* VideoAugmenterByAudioSwap.get_command("video", "out")
audio_swap_build ==
    /\ Commanding("audio_swap")
    /\ LET audio_info == cmd.others[1]
           start == cmd.self.audio_offset
           end == start + cmd.video_info.duration
           audio_filters ==
               "atrim=" \o str_float(start) \o ":" \o str_float(end)
               \o ",asetpts=PTS-STARTPTS"
               \o IF end > audio_info.duration
                  THEN ",apad=pad_len="
                       \o str_float((end - audio_info.duration) * audio_info.sample_rate)
                  ELSE ""
           filters == <<"-i", cmd.self.audio_path, "-vf", PadToEven,
                        "-af", audio_filters, "-map", "0:v:0", "-map", "1:a:0",
                        "-c:a", "aac">>
       IN Commanded(standard_filter_fmt("video", filters, "out"), cmd.self)
    /\ Idle

(***************************************************************************)
(* The order of the argument list of a built command.                      *)
(***************************************************************************)
\* -i
InputOptions == {"-i"}

\* -vf, -af and -filter_complex
FilterOptions == {"-vf", "-af", "-filter_complex"}

\* -map
MapOptions == {"-map"}

\* the video encoder and its quality settings
VideoCodecOptions == {"-c:v", "-preset", "-crf", "-pix_fmt"}

\* where the options of the set opts stand in args
PositionsOf(args, opts) == {i \in DOMAIN args : args[i] \in opts}

\* every position of a lies before every position of b
AllBefore(a, b) == \A i \in a, j \in b : i < j

\* an argument list has been built by get_command
HasCommand == "args" \in DOMAIN cmd /\ cmd.args # <<>>

\* C27: every argument list built by get_command starts with the overwrite
\* flag and ends with the output path; between them every input declaration
\* comes before every filter or graph declaration, every filter or graph
\* declaration before every stream mapping, and every stream mapping before
\* the video codec and quality declarations.
C27_ArgumentOrder ==
    HasCommand =>
        LET args == cmd.args
            inputs == PositionsOf(args, InputOptions)
            graphs == PositionsOf(args, FilterOptions)
            maps == PositionsOf(args, MapOptions)
            codecs == PositionsOf(args, VideoCodecOptions)
        IN /\ args[1] = "-y"
           /\ args[Len(args)] \in Paths
           /\ cmd.pc \in {"built", "rebuilt"} => args[Len(args)] = "out"
           /\ inputs # {}
           /\ AllBefore({1}, inputs \cup graphs \cup maps \cup codecs)
           /\ AllBefore(inputs, graphs)
           /\ AllBefore(inputs \cup graphs, maps)
           /\ AllBefore(inputs \cup graphs \cup maps, codecs)
           /\ AllBefore(codecs, {Len(args)})

\* a built fstack command: four inputs, the graph, the video and audio maps
C27_Witness ==
    /\ cmd.aug = "fstack" /\ cmd.pc = "built"
    /\ CountArg(cmd.args, "-i") = 4
    /\ CountArg(cmd.args, "-filter_complex") = 1
    /\ CountArg(cmd.args, "-map") = 2
    /\ CountArg(cmd.args, "-c:v") = 1

(***************************************************************************)
(* The augmenters and the two composed functions, one call each:     *)
(* the arguments and the probed inputs are chosen at the start.            *)
(***************************************************************************)
\* the sources whose duration plays no part
StillInfos == {vi \in FrameInfos : vi.duration = 1}

AugInputs ==
    {NewAug("trim", k, vi) : k \in TrimKwargs, vi \in FrameInfos}
    \cup {NewAug("crop", k, vi) : k \in CropKwargs, vi \in StillInfos}
    \cup {NewAug("aspect_ratio", k, vi) : k \in [ratio : AspectRatios], vi \in StillInfos}
    \cup {NewAug("resize", k, vi) : k \in ResizeKwargs, vi \in StillInfos}
    \cup {NewAug("pad", k, vi) : k \in PadKwargs, vi \in StillInfos}
    \cup {NewAug("rotate", k, vi) : k \in RotateKwargs, vi \in StillInfos}
    \cup {NewAug("transpose", k, vi) : k \in TransposeKwargs, vi \in StillInfos}
    \cup {NewAug("scale", k, vi) : k \in ScaleKwargs, vi \in StillInfos}
    \cup {NewMultiAug("blend", k, vi) : k \in BlendKwargs, vi \in FrameInfos}
    \cup {NewMultiAug("overlay", k, vi) : k \in OverlayKwargs, vi \in StillInfos}
    \cup UNION {{NewMultiAug(aug, k, vi) : k \in StackKwargs(aug), vi \in StillInfos} :
                    aug \in StackOps}
    \cup {NewConcat(k, others) : k \in ConcatKwargs,
                                 others \in [1..Len(ConcatPaths) -> ConcatInfos]}
    \cup {NewInsert(k, vi, bi) : k \in InsertKwargs, vi \in InsertInfos,
                                 bi \in BackgroundInfos}
    \cup {NewPixelization(k, vi) : k \in PixelizationKwargs, vi \in StillInfos}
    \cup {NewProbe(k) : k \in ProbeKwargs}
    \cup {NewRatioCall(r, vi) : r \in RatioArgs, vi \in StillInfos}
    \cup {NewTransform(k, s) : k \in TransformKwargs, s \in RngStates}
    \cup {NewAug("loop", k, vi) : k \in LoopKwargs, vi \in StillInfos}
    \cup {NewAug("quality", k, vi) : k \in QualityKwargs, vi \in StillInfos}
    \cup {NewAug("silent_audio", << >>, vi) : vi \in StillInfos}
    \cup {[NewAug("audio_swap", k, vi) EXCEPT !.others = <<ai>>] :
               k \in AudioSwapKwargs, vi \in FrameInfos, ai \in AudioInfos}

AugInit ==
    /\ call = [op |-> "get_command"]
    /\ stack = <<>>
    /\ fs = [p \in Paths |-> IF p \in InputPaths THEN Media("input", TRUE, FALSE) ELSE Absent]
    /\ log = <<>>
    /\ metadata = <<>>
    /\ result = "running"
    /\ ret = ""
    /\ exc = ""
    /\ cmd \in AugInputs

AugNext ==
    \/ trim_init
    \/ trim_build
    \/ trim_reuse
    \/ crop_init
    \/ crop_build
    \/ aspect_ratio_init
    \/ aspect_ratio_build
    \/ resize_init
    \/ resize_build
    \/ pad_init
    \/ pad_build
    \/ rotate_init
    \/ rotate_build
    \/ transpose_init
    \/ transpose_build
    \/ scale_init
    \/ scale_build
    \/ blend_init
    \/ blend_command
    \/ overlay_init
    \/ overlay_command
    \/ hstack_init
    \/ hstack_command
    \/ vstack_init
    \/ vstack_command
    \/ fstack_init
    \/ fstack_command
    \/ concat_turn
    \/ concat_loop_end
    \/ concat_init
    \/ concat_command
    \/ concat_run
    \/ insert_validate
    \/ insert_probe
    \/ insert_before
    \/ insert_insert
    \/ insert_after
    \/ insert_concat
    \/ pixelization_validate
    \/ pixelization_down
    \/ pixelization_up
    \/ execute_ffprobe_cmd
    \/ get_media_info_parse
    \/ get_info_return
    \/ change_aspect_ratio_convert
    \/ transform_init
    \/ transform_assert
    \/ transform_gate
    \/ transform_seed
    \/ transform_apply
    \/ transform_again
    \/ loop_init
    \/ loop_build
    \/ quality_init
    \/ quality_build
    \/ silent_audio_build
    \/ audio_swap_init
    \/ audio_swap_build

AugSpec == AugInit /\ [][AugNext]_vars

====
